---- MODULE Spec2Model ----
(***************************************************************************)
(* pypxe TFTP server: the per-peer session map of _Handler, the Reader and *)
(* Writer transaction handlers and the datagram handler that drives them.  *)
(*                                                                         *)
(* Conventions.  Python None is the empty sequence <<>> for optional       *)
(* integers and NoPacket for an optional packet.  A bytes value is a       *)
(* sequence of integers 0..255; the text of an Error message is a string.  *)
(* A raised exception is the field exc of the record an operator returns:  *)
(* "none", "ServerError" (with code and message) or "Exception".           *)
(*                                                                         *)
(* The datagram handler is modelled with the result of tftp.from_bytes as  *)
(* its input: a decoded packet object, or a failure to decode.             *)
(***************************************************************************)
EXTENDS Integers, Sequences, FiniteSets, TLC

(* ----------------------------- bounds ---------------------------------- *)

\* longest file a read provider hands out
MaxFileLen == 3
\* cap on a handler's block counter (keeps transfers finite)
MaxBlock == 2

(* ------------------------ const.py: enumerations ----------------------- *)

NotDefined == 0
FileNotFound == 1
AccessViolation == 2
DiskFull == 3
IllegalOperation == 4
UnknownTransferID == 5
FileAlreadyExists == 6
NoSuchUser == 7

\* OpCode members, by name
OpCode == {"ReadRequest", "WriteRequest", "Data", "Ack", "Error", "OptionAck"}

\* tftp/option.py default block size of Options.blocksize
DefaultBlockSize == 512

(* ------------------------------ helpers -------------------------------- *)

None == <<>>

Min(a, b) == IF a < b THEN a ELSE b

\* '%s:%d' % addr
AddrStr(addr) == addr[1] \o ":" \o ToString(addr[2])

(* ------------------------- tftp.py: packets ---------------------------- *)

NoPacket == [op |-> "None"]

Request(op, filename, mode, options) ==
    [op |-> op, filename |-> filename, mode |-> mode, options |-> options]

OptionAcknowledgement(options) == [op |-> "OptionAck", options |-> options]

Acknowledgement(block) == [op |-> "Ack", block |-> block]

Data(block, data) == [op |-> "Data", block |-> block, data |-> data]

Error(code, message) == [op |-> "Error", code |-> code, message |-> message]

is_request(pkt) == pkt.op \in {"ReadRequest", "WriteRequest"}

(* ------------------------ option.py: options --------------------------- *)

Option(name, value) == [name |-> name, value |-> value]

\* Options.__contains__: the name is a key of _dict
Options_contains(options, k) == \E i \in 1..Len(options) : options[i].name = k

\* Options.get: _dict maps a name to the index of its LAST occurrence
Options_get(options, k, d) ==
    IF Options_contains(options, k)
    THEN LET idx == CHOOSE i \in 1..Len(options) :
                        /\ options[i].name = k
                        /\ \A j \in (i+1)..Len(options) : options[j].name # k
         IN  <<options[idx].value>>
    ELSE d

Options_blocksize_double(options) ==
    Options_get(options, "blksize", <<2 * DefaultBlockSize>>)[1]

Options_blocksize(options) == Options_get(options, "blksize", <<DefaultBlockSize>>)[1]

Options_totalsize(options) == Options_get(options, "tsize", None)

(* --------------------- io buffer (file object) ------------------------- *)

\* a buffer as a provider hands it out: open, positioned at pos
NewBuffer(data, pos) == [data |-> data, pos |-> pos, closed |-> FALSE]

File_seek(f, index) == [f EXCEPT !.pos = index]

\* bytes returned by file.read(n) for n >= 0
File_readbytes_rest(f, n) ==
    IF f.pos >= Len(f.data) THEN <<>>
    ELSE SubSeq(f.data, f.pos + 1, Len(f.data))

File_readbytes(f, n) ==
    IF f.pos >= Len(f.data) THEN <<>>
    ELSE SubSeq(f.data, f.pos + 1, Min(f.pos + n, Len(f.data)))

File_read(f, n) == [f EXCEPT !.pos = f.pos + Len(File_readbytes(f, n))]

\* file.write(b) at the cursor: overwrites, extends, zero-fills a gap
File_write(f, b) ==
    LET len  == Len(f.data)
        head == [i \in 1..f.pos |-> IF i <= len THEN f.data[i] ELSE 0]
        tail == IF f.pos + Len(b) < len
                THEN SubSeq(f.data, f.pos + Len(b) + 1, len) ELSE <<>>
    IN  [f EXCEPT !.data = head \o b \o tail, !.pos = f.pos + Len(b)]

File_close(f) == [f EXCEPT !.closed = TRUE]

(* ---------------------- server/__init__.py: errors --------------------- *)

\* no exception raised
NoExc == [exc |-> "none", code |-> NotDefined, message |-> ""]

\* any exception that is not a ServerError
PyException == [exc |-> "Exception", code |-> NotDefined, message |-> ""]

ServerError(code, message) == [exc |-> "ServerError", code |-> code, message |-> message]

\* BadOpCode.__init__: 'unexpected op=%s' % op.name
BadOpCode_undefined(op) == ServerError(NotDefined, "unexpected op=" \o op)

BadOpCode(op) == ServerError(IllegalOperation, "unexpected op=" \o op)

\* BadBlockError.__init__: 'bad block=%d, expected=%d ' (the format ends in a space)
BadBlockError_swapped(given, expected) ==
    ServerError(IllegalOperation,
        "bad block=" \o ToString(expected) \o ", expected=" \o ToString(given) \o " ")

BadBlockError(given, expected) ==
    ServerError(IllegalOperation,
        "bad block=" \o ToString(given) \o ", expected=" \o ToString(expected) \o " ")

(* ------------------ server/handler.py: TFTPHandler --------------------- *)

TFTPHandler(kind, file, options) ==
    [kind    |-> kind,
     file    |-> file,
     block   |-> 0,
     options |-> options,
     blksize |-> Options_blocksize(options),
     tsize   |-> Options_totalsize(options),
     optack  |-> FALSE,
     skip    |-> FALSE]

is_closed(h) == h.block = -1

close(h) ==
    IF h.block # -1
    THEN [h EXCEPT !.block = -1, !.file = File_close(h.file)]
    ELSE h

(* --------------------- server/handler.py: Reader ----------------------- *)

\* Reader.filesize: seek to the end, restore the position
Reader_filesize_last(h) == Len(h.file.data) - 1

Reader_filesize(h) == Len(h.file.data)

\* index(): the offset of the block after the acknowledged ones
Reader_index_next(h) == h.blksize * (h.block + 1)

Reader_index(h) == h.blksize * h.block

\* options of the OACK built by Reader.generate
Reader_oack_options_echo(h) ==
    (IF h.blksize # 512 THEN <<Option("blksize", h.blksize)>> ELSE <<>>) \o
    (IF h.tsize # None THEN <<Option("tsize", h.tsize[1])>> ELSE <<>>)

Reader_oack_options(h) ==
    (IF h.blksize # 512 THEN <<Option("blksize", h.blksize)>> ELSE <<>>) \o
    (IF h.tsize # None THEN <<Option("tsize", Reader_filesize(h))>> ELSE <<>>)

Reader_generate(h) ==
    IF is_closed(h) THEN [h |-> h, res |-> NoPacket]
    ELSE IF h.block = 0 /\ Len(h.options) > 0 /\ ~h.optack
    THEN [h   |-> [h EXCEPT !.optack = TRUE, !.skip = TRUE],
          res |-> OptionAcknowledgement(Reader_oack_options(h))]
    ELSE IF Reader_index(h) <= h.file.pos
    THEN LET f == IF Reader_index(h) # h.file.pos
                  THEN File_seek(h.file, Reader_index(h)) ELSE h.file
         IN  [h   |-> [h EXCEPT !.file = File_read(f, h.blksize)],
              res |-> Data(h.block + 1, File_readbytes(f, h.blksize))]
    ELSE [h |-> h, res |-> NoPacket]

\* a terminal block was acknowledged: self.filesize < self.index()
Reader_last_block_le(h) == Reader_filesize(h) <= Reader_index(h)

Reader_last_block(h) == Reader_filesize(h) < Reader_index(h)

Reader_next_lenient(h, pkt) ==
    IF is_closed(h) THEN [h |-> h, ret |-> FALSE, err |-> NoExc]
    ELSE IF pkt.op = "Error" THEN [h |-> h, ret |-> TRUE, err |-> PyException]
    ELSE IF pkt.op = "Ack"
    THEN IF h.skip
         THEN IF pkt.block # 0
              THEN [h |-> h, ret |-> TRUE, err |-> BadBlockError(pkt.block, 0)]
              ELSE [h |-> [h EXCEPT !.skip = FALSE], ret |-> TRUE, err |-> NoExc]
         ELSE IF pkt.block # h.block + 1
              THEN [h |-> h, ret |-> TRUE, err |-> BadBlockError(pkt.block, h.block + 1)]
              ELSE LET h2 == [h EXCEPT !.block = h.block + 1]
                   IN  [h   |-> h2,
                        ret |-> ~Reader_last_block(h2),
                        err |-> NoExc]
    ELSE [h |-> h, ret |-> TRUE, err |-> NoExc]

Reader_next(h, pkt) ==
    IF is_closed(h) THEN [h |-> h, ret |-> FALSE, err |-> NoExc]
    ELSE IF pkt.op = "Error" THEN [h |-> h, ret |-> TRUE, err |-> PyException]
    ELSE IF pkt.op = "Ack"
    THEN IF h.skip
         THEN IF pkt.block # 0
              THEN [h |-> h, ret |-> TRUE, err |-> BadBlockError(pkt.block, 0)]
              ELSE [h |-> [h EXCEPT !.skip = FALSE], ret |-> TRUE, err |-> NoExc]
         ELSE IF pkt.block # h.block + 1
              THEN [h |-> h, ret |-> TRUE, err |-> BadBlockError(pkt.block, h.block + 1)]
              ELSE LET h2 == [h EXCEPT !.block = h.block + 1]
                   IN  [h   |-> h2,
                        ret |-> ~Reader_last_block(h2),
                        err |-> NoExc]
    ELSE [h |-> h, ret |-> TRUE, err |-> BadOpCode(pkt.op)]

(* --------------------- server/handler.py: Writer ----------------------- *)

Writer_generate_zero(h) ==
    IF is_closed(h) THEN [h |-> h, res |-> NoPacket]
    ELSE [h |-> h, res |-> Acknowledgement(0)]

Writer_generate(h) ==
    IF is_closed(h) THEN [h |-> h, res |-> NoPacket]
    ELSE [h |-> h, res |-> Acknowledgement(h.block)]

\* self.file.write(pkt.data)
Writer_write_fullonly(h, data) ==
    IF Len(data) < h.blksize THEN h ELSE [h EXCEPT !.file = File_write(h.file, data)]

Writer_write(h, data) == [h EXCEPT !.file = File_write(h.file, data)]

\* the payload is written before its size is checked
Writer_next_unchecked(h, pkt) ==
    IF is_closed(h) THEN [h |-> h, ret |-> FALSE, err |-> NoExc]
    ELSE IF pkt.op = "Error" THEN [h |-> h, ret |-> TRUE, err |-> PyException]
    ELSE IF pkt.op = "Data"
    THEN IF pkt.block # h.block + 1
         THEN [h |-> h, ret |-> TRUE, err |-> BadBlockError(pkt.block, h.block + 1)]
         ELSE [h   |-> [Writer_write(h, pkt.data) EXCEPT !.block = h.block + 1],
               ret |-> ~(Len(pkt.data) < h.blksize),
               err |-> NoExc]
    ELSE [h |-> h, ret |-> TRUE, err |-> BadOpCode(pkt.op)]

Writer_next(h, pkt) ==
    IF is_closed(h) THEN [h |-> h, ret |-> FALSE, err |-> NoExc]
    ELSE IF pkt.op = "Error" THEN [h |-> h, ret |-> TRUE, err |-> PyException]
    ELSE IF pkt.op = "Data"
    THEN IF pkt.block # h.block + 1
         THEN [h |-> h, ret |-> TRUE, err |-> BadBlockError(pkt.block, h.block + 1)]
         ELSE LET h1 == Writer_write(h, pkt.data)
              IN  IF Len(pkt.data) > h.blksize
                  THEN [h |-> h1, ret |-> TRUE,
                        err |-> ServerError(IllegalOperation,
                                    "invalid size=" \o ToString(Len(pkt.data)) \o
                                    ", block<=" \o ToString(h.blksize))]
                  ELSE [h   |-> [h1 EXCEPT !.block = h.block + 1],
                        ret |-> ~(Len(pkt.data) < h.blksize),
                        err |-> NoExc]
    ELSE [h |-> h, ret |-> TRUE, err |-> BadOpCode(pkt.op)]

\* dynamic dispatch on the handler stored in the session
Handler_next_writer(h, pkt) == Writer_next(h, pkt)

Handler_next(h, pkt) == IF h.kind = "Reader" THEN Reader_next(h, pkt) ELSE Writer_next(h, pkt)

Handler_generate(h) == IF h.kind = "Reader" THEN Reader_generate(h) ELSE Writer_generate(h)

(* ------------------------ bytes.decode('utf-8') ------------------------ *)

IsCont(b) == b >= 128 /\ b <= 191

\* number of bytes of the UTF-8 sequence a lead byte opens, 0 if it opens none
Utf8SeqLen(b) ==
    IF b <= 127 THEN 1
    ELSE IF b >= 194 /\ b <= 223 THEN 2
    ELSE IF b >= 224 /\ b <= 239 THEN 3
    ELSE IF b >= 240 /\ b <= 244 THEN 4
    ELSE 0

\* range of the second byte after the lead bytes that restrict it
Utf8SecondOk(lead, b) ==
    IF lead = 224 THEN b >= 160 /\ b <= 191
    ELSE IF lead = 237 THEN b >= 128 /\ b <= 159
    ELSE IF lead = 240 THEN b >= 144 /\ b <= 191
    ELSE IF lead = 244 THEN b >= 128 /\ b <= 143
    ELSE IsCont(b)

RECURSIVE Utf8Decodable(_)
\* TRUE iff bytes.decode() does not raise UnicodeDecodeError
Utf8Decodable(bs) ==
    IF bs = <<>> THEN TRUE
    ELSE LET n == Utf8SeqLen(bs[1])
         IN  /\ n > 0
             /\ Len(bs) >= n
             /\ (n >= 2 => Utf8SecondOk(bs[1], bs[2]))
             /\ \A i \in 3..n : IsCont(bs[i])
             /\ Utf8Decodable(SubSeq(bs, n + 1, Len(bs)))

(* ----------------------- server/server.py: _Handler -------------------- *)

\* no buffer: the peer has no session
NoBuffer == [data |-> <<>>, pos |-> -1, closed |-> FALSE]

\* what the completion callback was called with; called = FALSE: it was not
NoCallback ==
    [called |-> FALSE, request |-> NoPacket, file |-> NoBuffer, inmap |-> FALSE]

\* self._connstate[addr] = (request, handler)
Put_all(cs, addr, request, handler) ==
    [a \in DOMAIN cs \cup {addr} |-> [request |-> request, handler |-> handler]]

Put(cs, addr, request, handler) ==
    [a \in DOMAIN cs \cup {addr} |->
        IF a = addr THEN [request |-> request, handler |-> handler] ELSE cs[a]]

\* the session buffer of addr, NoBuffer without a session
BufferOf(cs, addr) == IF addr \in DOMAIN cs THEN cs[addr].handler.file ELSE NoBuffer

\* _kill_transaction: the session map afterwards
_kill_transaction_keep(cs, addr) == cs

_kill_transaction(cs, addr) ==
    IF addr \in DOMAIN cs
    THEN [a \in DOMAIN cs \ {addr} |-> cs[a]]
    ELSE cs

\* _kill_transaction: the buffer of the handler it closed
KilledBuffer(cs, addr) ==
    IF addr \in DOMAIN cs THEN close(cs[addr].handler).file ELSE NoBuffer

\* the buffer the completion callback receives: handler.file.seek(0, 0)
CallbackBuffer_norewind(h) == h.file

CallbackBuffer(h) == File_seek(h.file, 0)

\* the error raised when the provider returns None
ProviderMiss_swapped(op) ==
    IF op = "ReadRequest"
    THEN ServerError(FileAlreadyExists, "file already exists")
    ELSE ServerError(FileNotFound, "file not found")

ProviderMiss(op) ==
    IF op = "ReadRequest"
    THEN ServerError(FileNotFound, "file not found")
    ELSE ServerError(FileAlreadyExists, "file already exists")

\* on_packet for an address that is not in the session map
on_packet_new(cs, pkt, addr, env) ==
    LET fail(e) == [cs |-> cs, res |-> NoPacket, err |-> e, complete |-> FALSE,
                    cb |-> NoCallback, file |-> NoBuffer]
        kind    == IF pkt.op = "ReadRequest" THEN "Reader" ELSE "Writer"
        h       == TFTPHandler(kind, env.buffer, pkt.options)
        g       == Handler_generate(h)
    IN  IF ~is_request(pkt) THEN fail(BadOpCode(pkt.op))
        ELSE IF ~Utf8Decodable(pkt.filename) THEN fail(PyException)
        ELSE IF env.provider = "raise" THEN fail(PyException)
        ELSE IF env.provider = "none" THEN fail(ProviderMiss(pkt.op))
        ELSE [cs |-> Put(cs, addr, pkt, g.h), res |-> g.res, err |-> NoExc,
              complete |-> FALSE, cb |-> NoCallback, file |-> g.h.file]

\* on_packet for an address that has a session
on_packet_active_eager(cs, pkt, addr, env) ==
    LET request == cs[addr].request
        n       == Handler_next(cs[addr].handler, pkt)
        g       == Handler_generate(n.h)
        hc      == [g.h EXCEPT !.file = CallbackBuffer(g.h)]
        cs1     == Put(cs, addr, request, hc)
        cb      == [called |-> TRUE, request |-> request, file |-> hc.file,
                    inmap |-> addr \in DOMAIN cs1]
    IN  IF is_request(pkt)
        THEN [cs |-> cs, res |-> NoPacket, err |-> BadOpCode(pkt.op),
              complete |-> FALSE, cb |-> NoCallback, file |-> BufferOf(cs, addr)]
        ELSE IF n.err.exc # "none"
        THEN [cs |-> Put(cs, addr, request, n.h), res |-> NoPacket, err |-> n.err,
              complete |-> FALSE, cb |-> NoCallback, file |-> n.h.file]
        ELSE IF env.cbraise
        THEN [cs |-> cs1, res |-> NoPacket, err |-> PyException,
              complete |-> TRUE, cb |-> cb, file |-> hc.file]
        ELSE [cs |-> _kill_transaction(cs1, addr), res |-> g.res, err |-> NoExc,
              complete |-> TRUE, cb |-> cb, file |-> KilledBuffer(cs1, addr)]

on_packet_active(cs, pkt, addr, env) ==
    LET request == cs[addr].request
        n       == Handler_next(cs[addr].handler, pkt)
        g       == Handler_generate(n.h)
        hc      == [g.h EXCEPT !.file = CallbackBuffer(g.h)]
        cs1     == Put(cs, addr, request, hc)
        cb      == [called |-> TRUE, request |-> request, file |-> hc.file,
                    inmap |-> addr \in DOMAIN cs1]
    IN  IF is_request(pkt)
        THEN [cs |-> cs, res |-> NoPacket, err |-> BadOpCode(pkt.op),
              complete |-> FALSE, cb |-> NoCallback, file |-> BufferOf(cs, addr)]
        ELSE IF n.err.exc # "none"
        THEN [cs |-> Put(cs, addr, request, n.h), res |-> NoPacket, err |-> n.err,
              complete |-> FALSE, cb |-> NoCallback, file |-> n.h.file]
        ELSE IF n.ret
        THEN [cs |-> Put(cs, addr, request, g.h), res |-> g.res, err |-> NoExc,
              complete |-> FALSE, cb |-> NoCallback, file |-> g.h.file]
        ELSE IF env.cbraise
        THEN [cs |-> cs1, res |-> NoPacket, err |-> PyException,
              complete |-> TRUE, cb |-> cb, file |-> hc.file]
        ELSE [cs |-> _kill_transaction(cs1, addr), res |-> g.res, err |-> NoExc,
              complete |-> TRUE, cb |-> cb, file |-> KilledBuffer(cs1, addr)]

on_packet_restart(cs, pkt, addr, env) ==
    IF addr \notin DOMAIN cs \/ is_request(pkt)
    THEN on_packet_new(cs, pkt, addr, env)
    ELSE on_packet_active(cs, pkt, addr, env)

on_packet(cs, pkt, addr, env) ==
    IF addr \notin DOMAIN cs
    THEN on_packet_new(cs, pkt, addr, env)
    ELSE on_packet_active(cs, pkt, addr, env)

\* Packet.to_bytes succeeds: struct.pack('>H', block) needs an unsigned 16-bit block
Encodable(res) == res.op \in {"Ack", "Data"} => (res.block >= 0 /\ res.block <= 65535)

\* the response after the except clauses of datagram_received
Response_str(r) ==
    IF r.err.exc = "none" THEN r.res
    ELSE IF r.err.exc = "ServerError" THEN Error(r.err.code, r.err.message)
    ELSE Error(NotDefined, r.err.message)

Response(r) ==
    IF r.err.exc = "none" THEN r.res
    ELSE IF r.err.exc = "ServerError" THEN Error(r.err.code, r.err.message)
    ELSE Error(NotDefined, "internal server error occured")

(* ------------------------- bytes and struct -------------------------- *)

\* the outcome of a call that raised, for calls that return an object, bytes
\* or a list
Raised == [raised |-> TRUE]

RaisedBytes == <<-1>>

RaisedList == <<Raised>>

\* bytes(n): n zero bytes, none for n <= 0 is a ValueError the callers guard
Zeros(n) == [i \in 1..n |-> 0]

\* raw[a:b] with Python's clamping, a and b counted from 0
Slice(raw, a, b) == SubSeq(raw, a + 1, Min(b, Len(raw)))

\* raw[a:]
SliceFrom(raw, a) == SubSeq(raw, a + 1, Len(raw))

\* struct.pack('>H', n)
pack_H(n) == <<n \div 256, n % 256>>

\* struct.unpack('>H', raw)[0], for len(raw) = 2
unpack_H(raw) == raw[1] * 256 + raw[2]

\* struct.pack('>I', n)
pack_I(n) == <<n \div 16777216, (n \div 65536) % 256, (n \div 256) % 256, n % 256>>

\* struct.unpack('>I', raw)[0], for len(raw) = 4
unpack_I(raw) == raw[1] * 16777216 + raw[2] * 65536 + raw[3] * 256 + raw[4]

(* ------------------- tftp.py, option.py: the wire format ------------- *)

\* OpCode.X.value
OpCodeValue(op) ==
    CASE op = "ReadRequest" -> 1 [] op = "WriteRequest" -> 2 [] op = "Data" -> 3
      [] op = "Ack" -> 4 [] op = "Error" -> 5 [] op = "OptionAck" -> 6

\* option.Param: the byte string of each option name
ParamValue(name) ==
    CASE name = "blksize" -> <<98, 108, 107, 115, 105, 122, 101>>
      [] name = "timeout" -> <<116, 105, 109, 101, 111, 117, 116>>
      [] name = "tsize"   -> <<116, 115, 105, 122, 101>>

\* RequestMode: the UTF-8 bytes of mode.value.lower()
ModeValue(mode) ==
    CASE mode = "netascii" -> <<110, 101, 116, 97, 115, 99, 105, 105>>
      [] mode = "octet"    -> <<111, 99, 116, 101, 116>>
      [] mode = "mail"     -> <<109, 97, 105, 108>>

RequestMode == {"netascii", "octet", "mail"}

RECURSIVE str_int(_)
\* bytes(str(n), 'utf-8') for an int n
str_int(n) ==
    IF n < 0 THEN <<45>> \o str_int(0 - n)
    ELSE IF n < 10 THEN <<48 + n>>
    ELSE str_int(n \div 10) \o <<48 + (n % 10)>>

RECURSIVE DigitsValue(_)
\* the number a string of ASCII digits denotes
DigitsValue(bs) ==
    IF bs = <<>> THEN 0
    ELSE DigitsValue(SubSeq(bs, 1, Len(bs) - 1)) * 10 + (bs[Len(bs)] - 48)

\* int(bs.decode('utf-8')) for an optional sign followed by ASCII digits; the
\* model sends no other numerals that int() accepts (spaces, underscores)
int_str(bs) ==
    LET signed == bs # <<>> /\ bs[1] \in {43, 45}
        digits == IF signed THEN Tail(bs) ELSE bs
    IN  IF digits = <<>> \/ \E i \in 1..Len(digits) : digits[i] < 48 \/ digits[i] > 57
        THEN Raised
        ELSE IF signed /\ bs[1] = 45 THEN [value |-> 0 - DigitsValue(digits)]
        ELSE [value |-> DigitsValue(digits)]

\* utils.read_bytes: the bytes before the first NUL and the bytes after it
read_bytes(raw) ==
    IF \A i \in 1..Len(raw) : raw[i] # 0 THEN Raised
    ELSE LET idx == CHOOSE i \in 1..Len(raw) :
                        raw[i] = 0 /\ \A j \in 1..(i - 1) : raw[j] # 0
         IN  [head |-> SubSeq(raw, 1, idx - 1), rest |-> SubSeq(raw, idx + 1, Len(raw))]

\* Option.to_bytes of option.py
TftpOption_to_bytes(opt) == ParamValue(opt.name) \o <<0>> \o str_int(opt.value) \o <<0>>

RECURSIVE TftpOptions_to_bytes(_)
\* b''.join(opt.to_bytes() for opt in options)
TftpOptions_to_bytes(options) ==
    IF options = <<>> THEN <<>>
    ELSE TftpOption_to_bytes(Head(options)) \o TftpOptions_to_bytes(Tail(options))

\* Option.from_bytes of option.py
TftpOption_from_bytes(raw) ==
    LET ParamNames == {"blksize", "timeout", "tsize"}
        name  == read_bytes(raw)
        value == read_bytes(name.rest)
        v     == int_str(value.head)
    IN  IF name = Raised THEN Raised
        ELSE IF value = Raised THEN Raised
        ELSE IF \A p \in ParamNames : ParamValue(p) # name.head THEN Raised
        ELSE IF v = Raised THEN Raised
        ELSE Option(CHOOSE p \in ParamNames : ParamValue(p) = name.head, v.value)

RECURSIVE TftpOptions_from(_, _)
\* the loop of option.from_bytes from cursor n on: the cursor advances by the
\* length of the name and of str(value), plus 2
TftpOptions_from(raw, n) ==
    IF n >= Len(raw) THEN <<>>
    ELSE LET opt  == TftpOption_from_bytes(SliceFrom(raw, n))
             rest == TftpOptions_from(raw,
                        n + Len(ParamValue(opt.name)) + Len(str_int(opt.value)) + 2)
         IN  IF opt = Raised THEN RaisedList
             ELSE IF rest = RaisedList THEN RaisedList
             ELSE <<opt>> \o rest

\* option.from_bytes
TftpOptions_from_bytes(raw) == TftpOptions_from(raw, 0)

\* packet.to_bytes() of the five packet classes
to_bytes(pkt) ==
    IF ~Encodable(pkt) THEN RaisedBytes
    ELSE pack_H(OpCodeValue(pkt.op)) \o
    CASE is_request(pkt) ->
            pkt.filename \o <<0>> \o ModeValue(pkt.mode) \o <<0>>
            \o TftpOptions_to_bytes(pkt.options)
      [] pkt.op = "OptionAck" -> TftpOptions_to_bytes(pkt.options)
      [] pkt.op = "Ack" -> pack_H(pkt.block)
      [] pkt.op = "Data" -> pack_H(pkt.block) \o pkt.data
      [] pkt.op = "Error" -> pack_H(pkt.code) \o pkt.message

\* Request.from_bytes
Request_from_bytes(raw) ==
    LET \* A-Z to a-z, as bytes.decode('utf-8').lower() does on ASCII
        Lower(bs) ==
            [i \in 1..Len(bs) |-> IF bs[i] >= 65 /\ bs[i] <= 90 THEN bs[i] + 32 ELSE bs[i]]
        op       == unpack_H(Slice(raw, 0, 2))
        filename == read_bytes(SliceFrom(raw, 2))
        mode     == read_bytes(filename.rest)
        options  == TftpOptions_from_bytes(mode.rest)
    IN  IF filename = Raised THEN Raised
        ELSE IF mode = Raised THEN Raised
        ELSE IF op \notin 1..6 THEN Raised
        ELSE IF ~Utf8Decodable(mode.head) THEN Raised
        ELSE IF \A m \in RequestMode : ModeValue(m) # Lower(mode.head) THEN Raised
        ELSE IF options = RaisedList THEN Raised
        ELSE Request(CHOOSE o \in OpCode : OpCodeValue(o) = op, filename.head,
                     CHOOSE m \in RequestMode : ModeValue(m) = Lower(mode.head), options)

\* OptionAcknowledgement.from_bytes
OptionAcknowledgement_from_bytes(raw) ==
    LET options == TftpOptions_from_bytes(SliceFrom(raw, 2))
    IN  IF options = RaisedList THEN Raised ELSE OptionAcknowledgement(options)

\* Acknowledgement.from_bytes: struct.unpack('>H', raw[2:]) needs exactly 2 bytes
Acknowledgement_from_bytes(raw) ==
    IF Len(raw) # 4 THEN Raised ELSE Acknowledgement(unpack_H(SliceFrom(raw, 2)))

\* Data.from_bytes
Data_from_bytes(raw) ==
    IF Len(raw) < 4 THEN Raised
    ELSE Data(unpack_H(Slice(raw, 2, 4)), SliceFrom(raw, 4))

\* Error.from_bytes
Error_from_bytes(raw) ==
    IF Len(raw) < 4 THEN Raised
    ELSE Error(unpack_H(Slice(raw, 2, 4)), SliceFrom(raw, 4))

\* op == OpCode.X in from_bytes: op is the int unpacked from the datagram and
\* OpCode is an enum.Enum, whose members equal no int
OpCodeEq(op, member) == FALSE

\* tftp.from_bytes
from_bytes(raw) ==
    IF Len(raw) < 2 THEN Raised
    ELSE LET op == unpack_H(Slice(raw, 0, 2))
         IN  IF OpCodeEq(op, "ReadRequest") \/ OpCodeEq(op, "WriteRequest")
                 THEN Request_from_bytes(raw)
             ELSE IF OpCodeEq(op, "OptionAck") THEN OptionAcknowledgement_from_bytes(raw)
             ELSE IF OpCodeEq(op, "Ack") THEN Acknowledgement_from_bytes(raw)
             ELSE IF OpCodeEq(op, "Data") THEN Data_from_bytes(raw)
             ELSE IF OpCodeEq(op, "Error") THEN Error_from_bytes(raw)
             ELSE Raised

(* -------------------- pypxe/dhcp/dhcp4/option.py -------------------- *)

\* Param: the values of the enumeration
Param == (0..83) \cup (85..95) \cup (97..101) \cup (112..114) \cup (116..125)
         \cup (128..143) \cup (150..157) \cup (175..177) \cup (208..213)
         \cup {220, 221, 255}

\* the classes with one Ipv4 attribute and their opcode
IPv4OptionClasses ==
    [OptSubnetMask |-> 1, OptRouter |-> 3, OptDomainNameServer |-> 6,
     OptRequestedAddress |-> 50, OptServerIdentifier |-> 54, OptTFTPServerIP |-> 128]

\* the subclasses that keep Option's constructor and codec, and their class opcode
RawOptionClasses ==
    [OptClassIdentifier |-> 60, OptTFTPServerName |-> 66, OptBootFileName |-> 67,
     OptUserClassInfo |-> 77, OptEtherBoot |-> 175]

\* Option(value, opcode) and the subclasses that inherit its constructor: the
\* constructor stores opcode (default Param.OptionPad) on the instance
DhcpOption(cls, value, opcode) == [cls |-> cls, value |-> value, opcode |-> opcode]

\* _IPv4Option subclasses: cls(ip)
IPv4Option(cls, ip) == [cls |-> cls, ip |-> ip]

\* OptIPLeaseTime(secs)
OptIPLeaseTime(secs) == [cls |-> "OptIPLeaseTime", lease |-> secs]

\* OptMessageType(type)
OptMessageType(type) == [cls |-> "OptMessageType", type |-> type]

\* OptParameterRequestList(params)
OptParameterRequestList(params) == [cls |-> "OptParameterRequestList", params |-> params]

\* OptMaxMessageSize(max_length)
OptMaxMessageSize(max_length) == [cls |-> "OptMaxMessageSize", max_length |-> max_length]

\* OptClientNetworkInterface(major, minor)
OptClientNetworkInterface(major, minor) ==
    [cls |-> "OptClientNetworkInterface", major |-> major, minor |-> minor]

\* OptXXIDClientIdentifier(value): Option's constructor, opcode left at OptionPad
OptXXIDClientIdentifier(value) == DhcpOption("OptXXIDClientIdentifier", value, 0)

\* the opcode attribute of an option: the instance attribute where the
\* constructor sets one, the class attribute otherwise
Option_opcode(opt) ==
    IF "opcode" \in DOMAIN opt THEN opt.opcode
    ELSE IF opt.cls \in DOMAIN IPv4OptionClasses THEN IPv4OptionClasses[opt.cls]
    ELSE CASE opt.cls = "OptIPLeaseTime" -> 51
           [] opt.cls = "OptMessageType" -> 53
           [] opt.cls = "OptParameterRequestList" -> 55
           [] opt.cls = "OptMaxMessageSize" -> 57
           [] opt.cls = "OptClientNetworkInterface" -> 94

\* opt.to_bytes()
Option_to_bytes(opt) ==
    IF opt.cls = "OptXXIDClientIdentifier"
        THEN <<opt.opcode, Len(opt.value) + 1, 0>> \o opt.value
    ELSE IF "value" \in DOMAIN opt
        THEN <<opt.opcode, Len(opt.value)>> \o opt.value
    ELSE IF opt.cls \in DOMAIN IPv4OptionClasses
        THEN <<Option_opcode(opt), 4>> \o opt.ip
    ELSE CASE opt.cls = "OptIPLeaseTime" -> <<51, 4>> \o pack_I(opt.lease)
           [] opt.cls = "OptMessageType" -> <<53, 1, opt.type>>
           [] opt.cls = "OptParameterRequestList" -> <<55, Len(opt.params)>> \o opt.params
           [] opt.cls = "OptMaxMessageSize" -> <<57, 2>> \o pack_H(opt.max_length)
           [] opt.cls = "OptClientNetworkInterface" -> <<94, 3, 1, opt.major, opt.minor>>

RECURSIVE Options_to_bytes(_)
\* b''.join(opt.to_bytes() for opt in options)
Options_to_bytes(options) ==
    IF options = <<>> THEN <<>>
    ELSE Option_to_bytes(Head(options)) \o Options_to_bytes(Tail(options))

\* the class _from_bytes picks for an opcode: the Opt* class registered under
\* it (Option itself is registered under 0), none for the other opcodes
OptionClassOf(opcode) ==
    IF opcode = 0 THEN "Option"
    ELSE IF opcode = 97 THEN "OptXXIDClientIdentifier"
    ELSE IF \E c \in DOMAIN IPv4OptionClasses : IPv4OptionClasses[c] = opcode
        THEN CHOOSE c \in DOMAIN IPv4OptionClasses : IPv4OptionClasses[c] = opcode
    ELSE IF \E c \in DOMAIN RawOptionClasses : RawOptionClasses[c] = opcode
        THEN CHOOSE c \in DOMAIN RawOptionClasses : RawOptionClasses[c] = opcode
    ELSE CASE opcode = 51 -> "OptIPLeaseTime"
           [] opcode = 53 -> "OptMessageType"
           [] opcode = 55 -> "OptParameterRequestList"
           [] opcode = 57 -> "OptMaxMessageSize"
           [] opcode = 94 -> "OptClientNetworkInterface"
           [] OTHER -> "none"

\* Option.from_bytes(raw), the classmethod the raw subclasses inherit
Option_from_bytes(cls, raw) ==
    IF Len(raw) < 1 \/ raw[1] \notin Param THEN Raised
    ELSE DhcpOption(cls, SliceFrom(raw, 2), raw[1])

\* cls.from_bytes(raw) of the class registered for an opcode; raw is the payload
Class_from_bytes(cls, raw) ==
    IF cls \in DOMAIN IPv4OptionClasses
        THEN IF Len(raw) = 4 THEN IPv4Option(cls, raw) ELSE Raised
    ELSE IF cls = "Option" \/ cls \in DOMAIN RawOptionClasses
        THEN Option_from_bytes(cls, raw)
    ELSE CASE cls = "OptIPLeaseTime" ->
                IF Len(raw) = 4 THEN OptIPLeaseTime(unpack_I(raw)) ELSE Raised
           [] cls = "OptMessageType" ->
                \* const.MessageType has the values 1..8
                IF Len(raw) >= 1 /\ raw[1] \in 1..8
                THEN OptMessageType(raw[1]) ELSE Raised
           [] cls = "OptParameterRequestList" -> OptParameterRequestList(raw)
           [] cls = "OptMaxMessageSize" ->
                IF Len(raw) = 2 THEN OptMaxMessageSize(unpack_H(raw)) ELSE Raised
           [] cls = "OptClientNetworkInterface" ->
                IF Len(raw) >= 3 THEN OptClientNetworkInterface(raw[2], raw[3]) ELSE Raised
           [] cls = "OptXXIDClientIdentifier" -> OptXXIDClientIdentifier(SliceFrom(raw, 1))

\* _from_bytes(raw): the option at the head of raw and the bytes read
_from_bytes(raw) ==
    IF Len(raw) < 2 THEN Raised
    ELSE LET optlen == raw[2] + 2
             cls    == OptionClassOf(raw[1])
             opt    == IF cls # "none" THEN Class_from_bytes(cls, Slice(raw, 2, optlen))
                       ELSE Option_from_bytes("Option", Slice(raw, 0, optlen))
         IN  IF opt = Raised THEN Raised ELSE [opt |-> opt, mod |-> optlen]

RECURSIVE Options_from_bytes(_)
\* from_bytes(raw): the options of a TLV stream.  The first option is parsed
\* before the first test for the End byte.
Options_from_bytes(raw) ==
    LET r    == _from_bytes(raw)
        rest == SliceFrom(raw, r.mod)
        tail == Options_from_bytes(rest)
    IN  IF r = Raised THEN RaisedList
        ELSE IF rest = <<>> THEN RaisedList
        ELSE IF rest[1] = 255 THEN <<r.opt>>
        ELSE IF tail = RaisedList THEN RaisedList
        ELSE <<r.opt>> \o tail

(* ------------------------ dhcp/dhcp4/dhcp.py ------------------------- *)

\* const.OpCode
BootRequest == 1

BootReply == 2

\* iana.HWType.Ethernet, the default htype of DHCPv4
Ethernet == 1

\* net.Ipv4(0, 0, 0, 0)
IpZero == <<0, 0, 0, 0>>

magic_cookie == <<99, 130, 83, 99>>

\* DHCPv4(op, trans_id, client_hwaddr, options, ...): hlen is the length of
\* the hardware address
DHCPv4(op, trans_id, client_hwaddr, options, secs, your_addr, server_name, boot_file) ==
    [op |-> op, xid |-> trans_id, client_hwaddr |-> client_hwaddr, options |-> options,
     htype |-> Ethernet, hlen |-> Len(client_hwaddr), hops |-> 0, secs |-> secs,
     flags |-> 0, client_addr |-> IpZero, your_addr |-> your_addr,
     server_addr |-> IpZero, gateway_addr |-> IpZero,
     server_name |-> server_name, boot_file |-> boot_file]

\* the padding after the hardware address: bytes(16)[len(hwaddr):]
HwPadding_fixed(hwaddr) == Zeros(10)

HwPadding(hwaddr) == Zeros(16 - Len(hwaddr))

\* to_bytes does not raise: the header bytes and 16-bit fields are in range
\* and bytes(n) is not asked for a negative count
DHCPv4_encodable(p) ==
    /\ p.hlen <= 255 /\ p.hops >= 0 /\ p.hops <= 255
    /\ p.secs >= 0 /\ p.secs <= 65535
    /\ p.flags >= 0 /\ p.flags <= 65535
    /\ Len(p.server_name) <= 64
    /\ Len(p.boot_file) <= 128

\* DHCPv4.to_bytes
DHCPv4_to_bytes(p) ==
    IF ~DHCPv4_encodable(p) THEN RaisedBytes
    ELSE <<p.op, p.htype, p.hlen, p.hops>>
         \o p.xid
         \o pack_H(p.secs)
         \o pack_H(p.flags)
         \o p.client_addr
         \o p.your_addr
         \o p.server_addr
         \o p.gateway_addr
         \o p.client_hwaddr \o HwPadding(p.client_hwaddr)
         \o p.server_name \o Zeros(64 - Len(p.server_name))
         \o p.boot_file \o Zeros(128 - Len(p.boot_file))
         \o magic_cookie
         \o Options_to_bytes(p.options)
         \o <<255>>

\* DHCPv4.from_bytes.  It raises unless the indexed bytes exist, the unpacked
\* and Ipv4 slices are complete, const.OpCode knows op and iana.HWType knows
\* htype; the bytes at [236:240] are not read.
DHCPv4_from_bytes(raw) ==
    IF ~(Len(raw) >= 28 /\ raw[1] \in {BootRequest, BootReply} /\ raw[2] \in {Ethernet})
    THEN Raised
    ELSE LET hlen    == raw[3]
             \* bs.rstrip(b'\x00'): bs up to its last byte that is not NUL
             rstrip(bs) ==
                 SubSeq(bs, 1, CHOOSE i \in 0..Len(bs) :
                                   /\ i = 0 \/ bs[i] # 0
                                   /\ \A j \in (i + 1)..Len(bs) : bs[j] = 0)
             hwaddr  == Slice(raw, 28, 28 + hlen)
             options == Options_from_bytes(SliceFrom(raw, 240))
         IN  IF options = RaisedList THEN Raised
             ELSE [op |-> raw[1], xid |-> Slice(raw, 4, 8), client_hwaddr |-> hwaddr,
                   options |-> options, htype |-> raw[2], hlen |-> Len(hwaddr),
                   hops |-> raw[4], secs |-> unpack_H(Slice(raw, 8, 10)),
                   flags |-> unpack_H(Slice(raw, 10, 12)),
                   client_addr |-> Slice(raw, 12, 16), your_addr |-> Slice(raw, 16, 20),
                   server_addr |-> Slice(raw, 20, 24), gateway_addr |-> Slice(raw, 24, 28),
                   server_name |-> rstrip(Slice(raw, 44, 108)),
                   boot_file |-> rstrip(Slice(raw, 108, 236))]

(* ------------------------------- inputs -------------------------------- *)

\* peers: (host, port)
Addr1 == <<"10.0.0.1", 1024>>

Addr2 == <<"10.0.0.2", 1025>>

\* b'foo'
GoodName == <<102, 111, 111>>

\* a name that is not UTF-8
BadName == <<255>>

\* option lists a request may carry
AllOptions ==
    {<<>>,
     <<Option("blksize", 2)>>,
     <<Option("blksize", 2), Option("tsize", 0)>>,
     <<Option("blksize", 512)>>,
     <<Option("timeout", 5)>>}

\* Data payloads a peer may send: empty, short, two full blocks of 2, oversized
AllPayloads == {<<>>, <<7>>, <<7, 8>>, <<9, 8>>, <<7, 8, 9>>}

\* the peers of a run and what they send: one peer using every option list,
\* payload and file over a transport that accepts every datagram, or two peers
\* using fewer over a transport whose sendto may raise, or one peer reading a
\* file that is one byte longer than the default block size; lens are the
\* lengths of the files the read provider serves, maxblock caps the block
\* counter of a handler
OnePeer ==
    [addrs |-> {Addr1}, options |-> AllOptions, payloads |-> AllPayloads,
     lens |-> 0..MaxFileLen, sendok |-> {TRUE}, maxblock |-> MaxBlock]

TwoPeers ==
    [addrs |-> {Addr1, Addr2}, options |-> {<<Option("blksize", 2)>>},
     payloads |-> {<<7>>, <<7, 8>>}, lens |-> {MaxFileLen},
     sendok |-> BOOLEAN, maxblock |-> MaxBlock]

LongFile ==
    [addrs |-> {Addr1}, options |-> {<<>>}, payloads |-> {},
     lens |-> {DefaultBlockSize + 1}, sendok |-> {TRUE}, maxblock |-> MaxBlock]

Populations == {OnePeer, TwoPeers, LongFile}

Requests(pop) ==
    {Request(op, GoodName, "octet", opts) :
        op \in {"ReadRequest", "WriteRequest"}, opts \in pop.options}
    \cup {Request(op, BadName, "octet", <<>>) : op \in {"ReadRequest", "WriteRequest"}}

Blocks == 0..(MaxBlock + 1)

Packets(pop) ==
    Requests(pop)
    \cup {Acknowledgement(b) : b \in Blocks}
    \cup {Data(b, d) : b \in 1..MaxBlock, d \in pop.payloads}
    \cup {Error(AccessViolation, "denied"), OptionAcknowledgement(<<>>)}

\* the bytes 1, 2, .., n (modulo 256)
FileBytes(n) == [i \in 1..n |-> i % 256]

\* what the read provider may hand out: a readable buffer at offset 0
ReadBuffers(pop) == {NewBuffer(FileBytes(n), 0) : n \in pop.lens}

\* what the write provider may hand out: an empty buffer
WriteBuffers == {NewBuffer(<<>>, 0)}

\* environment of one datagram: outcome of the provider, of the completion
\* callback and of transport.sendto
Env(provider, buffer, cbraise, sendok) ==
    [provider |-> provider, buffer |-> buffer, cbraise |-> cbraise, sendok |-> sendok]

\* provider outcomes that matter for this datagram
ProviderEnvs(pop, cs, pkt, addr) ==
    IF pkt # NoPacket /\ addr \notin DOMAIN cs /\ is_request(pkt) /\ Utf8Decodable(pkt.filename)
    THEN {Env(p, NoBuffer, FALSE, TRUE) : p \in {"none", "raise"}}
         \cup {Env("buffer", b, FALSE, TRUE) :
                 b \in IF pkt.op = "ReadRequest" THEN ReadBuffers(pop) ELSE WriteBuffers}
    ELSE {Env("unused", NoBuffer, FALSE, TRUE)}

Envs(pop, cs, pkt, addr) ==
    IF pkt = NoPacket THEN {Env("unused", NoBuffer, FALSE, TRUE)}
    ELSE UNION {
        LET r == on_packet(cs, pkt, addr, e)
        IN  {Env(e.provider, e.buffer, c, s) :
                c \in IF r.complete THEN BOOLEAN ELSE {FALSE},
                s \in IF Response(r) # NoPacket THEN pop.sendok ELSE {TRUE}}
        : e \in ProviderEnvs(pop, cs, pkt, addr)}

(* ------------------------------- state --------------------------------- *)

VARIABLES
    population, \* the peers of this run and the inputs they draw from
    connstate,  \* _Handler._connstate: address string -> (request, handler)
    hist,       \* per session: creating request, packets emitted, payloads received,
                \* calls of the completion callback
    last,       \* the datagram handled last and what became of it
    dhcp,       \* the DHCP server: the datagram it handled last and the one before
    container,  \* a DHCP Options container and the options put into it so far
    wire        \* the packet, datagram or option stream converted last and the result

vars == <<population, connstate, hist, last, dhcp, container, wire>>

\* the state of the TFTP server
tftp_vars == <<population, connstate, hist, last>>

\* the DHCP server has handled nothing
NoDhcp == [impl |-> "none"]

\* no Options container has been built
NoContainer == [built |-> FALSE]

\* no packet has been converted
NoWire == [fn |-> "none"]

NoHist == [request |-> NoPacket, ndata |-> 0, recv |-> <<>>, emitted |-> <<>>, cbs |-> 0]

NoLast ==
    [addr |-> <<"", 0>>, pkt |-> NoPacket, env |-> Env("unused", NoBuffer, FALSE, TRUE),
     had |-> FALSE, res |-> NoPacket, exc |-> "none", complete |-> FALSE,
     cb |-> NoCallback, file |-> NoBuffer, hist |-> NoHist, sent |-> FALSE,
     to |-> None]

\* connection_made
Init ==
    /\ population \in Populations
    /\ connstate = [a \in {} |-> 0]
    /\ hist = [a \in {} |-> 0]
    /\ last = NoLast
    /\ dhcp = NoDhcp
    /\ container = NoContainer
    /\ wire = NoWire

\* the history of the session of addr after a datagram with response res
HistStep(h, cs, pkt, addr, res, called) ==
    LET h0 == IF addr \in DOMAIN cs THEN h[addr]
              ELSE [NoHist EXCEPT !.request = pkt]
    IN  [h0 EXCEPT !.ndata = IF res.op = "Data" THEN @ + 1 ELSE @,
                   !.recv  = IF addr \in DOMAIN cs /\ pkt.op = "Data"
                             THEN @ \o pkt.data ELSE @,
                   !.emitted = IF res # NoPacket THEN Append(@, res) ELSE @,
                   !.cbs = IF called THEN @ + 1 ELSE @]

\* the address handed to transport.sendto for the reply to a datagram from addr
ReplyTarget_first(addr) == Addr1

ReplyTarget(addr) == addr

\* the session map after a datagram that tftp.from_bytes could not decode
decode_failed_kill(cs, addr) == _kill_transaction(cs, addr)

decode_failed(cs, addr) == cs

\* datagram_received.  req is what tftp.from_bytes(data) returned, NoPacket if
\* it raised: the datagram is then dropped without a reply.
datagram_received(req, addr, env) ==
    IF req = NoPacket
    THEN /\ last' = [NoLast EXCEPT !.addr = addr]
         /\ connstate' = decode_failed(connstate, AddrStr(addr))
         /\ hist' = [a \in DOMAIN connstate' |-> hist[a]]
         /\ UNCHANGED <<population, dhcp, container, wire>>
    ELSE
    LET addrstr == AddrStr(addr)
        r       == on_packet(connstate, req, addrstr, env)
        failed  == r.err.exc # "none"
        cs2     == IF failed THEN _kill_transaction(r.cs, addrstr) ELSE r.cs
        file    == IF failed /\ addrstr \in DOMAIN r.cs
                   THEN KilledBuffer(r.cs, addrstr) ELSE r.file
        res     == Response(r)
        touched == addrstr \in DOMAIN connstate \/ addrstr \in DOMAIN cs2
        h2      == IF touched THEN HistStep(hist, connstate, req, addrstr, res, r.cb.called) ELSE NoHist
    IN  /\ addrstr \in DOMAIN cs2 => cs2[addrstr].handler.block <= population.maxblock
        /\ UNCHANGED <<population, dhcp, container, wire>>
        /\ connstate' = cs2
        /\ hist' = [a \in DOMAIN cs2 |-> IF a = addrstr THEN h2 ELSE hist[a]]
        /\ last' = [addr |-> addr, pkt |-> req, env |-> env,
                    had |-> addrstr \in DOMAIN connstate,
                    res |-> res, exc |-> r.err.exc, complete |-> r.complete,
                    cb |-> r.cb, file |-> file, hist |-> h2,
                    sent |-> res # NoPacket /\ Encodable(res) /\ env.sendok,
                    to |-> IF res # NoPacket /\ Encodable(res) /\ env.sendok
                           THEN ReplyTarget(addr) ELSE None]

Next ==
    \E addr \in population.addrs, req \in Packets(population) \cup {NoPacket} :
        \E env \in Envs(population, connstate, req, AddrStr(addr)) :
            datagram_received(req, addr, env)

Spec == Init /\ [][Next]_vars

(* ------------ server/handler.py: the block counter at 65535 ---------- *)

\* A peer after more than 65530 blocks of a read.  The request asked for
\* blksize 0, which Reader takes as it is: every Data packet is empty and the
\* transfer never ends, so the session gets here whatever the file is.  The
\* Reader has emitted Data(block + 1) and waits for its acknowledgement; the
\* history of the session holds that packet and the number of Data packets.
OverflowInit ==
    LET request == Request("ReadRequest", GoodName, "octet", <<Option("blksize", 0)>>)
        addrstr == AddrStr(Addr1)
        reader(len, block) ==
            Reader_generate(
                [TFTPHandler("Reader",
                             NewBuffer(FileBytes(len), 0),
                             request.options)
                 EXCEPT !.block = block, !.optack = TRUE])
    IN  /\ population =
              [addrs |-> {Addr1}, options |-> {request.options}, payloads |-> {},
               lens |-> {}, sendok |-> BOOLEAN, maxblock |-> 65536]
        /\ \E len \in 0..MaxFileLen, block \in 65531..65533 :
              /\ connstate =
                    [a \in {addrstr} |->
                        [request |-> request, handler |-> reader(len, block).h]]
              /\ hist =
                    [a \in {addrstr} |->
                        [request |-> request, ndata |-> block + 1, recv |-> <<>>,
                         emitted |-> <<reader(len, block).res>>, cbs |-> 0]]
        /\ last = NoLast
        /\ dhcp = NoDhcp
        /\ container = NoContainer
        /\ wire = NoWire

\* an Ack for one of the last blocks a 16-bit block number can name, or Ack(0)
OverflowNext ==
    \E b \in {0} \cup (65532..65535) :
        \E env \in Envs(population, connstate, Acknowledgement(b), AddrStr(Addr1)) :
            datagram_received(Acknowledgement(b), Addr1, env)

OverflowSpec == OverflowInit /\ [][OverflowNext]_vars

(* -------- server/handler.py: a peer that acknowledges in turn -------- *)

\* Either no session yet, with a peer that may ask for any option list and a
\* file of up to MaxFileLen bytes, or the blksize-0 session after more than
\* 65530 blocks.
LiveInit ==
    \/ /\ population =
              [addrs |-> {Addr1}, options |-> AllOptions, payloads |-> {},
               lens |-> 0..MaxFileLen, sendok |-> {TRUE}, maxblock |-> 65536]
       /\ connstate = [a \in {} |-> 0]
       /\ hist = [a \in {} |-> 0]
       /\ last = NoLast
       /\ dhcp = NoDhcp
       /\ container = NoContainer
       /\ wire = NoWire
    \/ OverflowInit

\* The peer sends its read request, which the provider accepts, and from then
\* on the acknowledgement of the packet the Reader emitted last: Ack(0) for an
\* OACK, Ack(n) for Data(n).  A packet that cannot be encoded is never sent,
\* so the peer has nothing to acknowledge; sendto itself does not fail.
LiveNext ==
    LET a   == AddrStr(Addr1)
        e   == hist[a].emitted[Len(hist[a].emitted)]
        ack == Acknowledgement(IF e.op = "OptionAck" THEN 0 ELSE e.block)
    IN  \/ /\ last = NoLast
           /\ a \notin DOMAIN connstate
           /\ \E opts \in population.options, b \in ReadBuffers(population) :
                 datagram_received(Request("ReadRequest", GoodName, "octet", opts),
                                   Addr1, Env("buffer", b, FALSE, TRUE))
        \/ /\ a \in DOMAIN connstate
           /\ e.op \in {"OptionAck", "Data"}
           /\ Encodable(e)
           /\ \E env \in Envs(population, connstate, ack, a) :
                 env.sendok /\ datagram_received(ack, Addr1, env)

\* the peer keeps acknowledging as long as it has something to acknowledge
LiveSpec == LiveInit /\ [][LiveNext]_vars /\ WF_vars(LiveNext)

(* ---------------- dhcp/server.py: _Handler, inputs ------------------- *)

\* the two DHCP servers of the repository: pypxe/dhcp/server.py, which logs
\* and catches every exception, and dhcp/server.py, which catches the decode
\* error only and lets the others escape to the event loop
DhcpImpls == {"pypxe", "dhcp"}

\* no DHCP packet: None
NoDhcpPacket == [none |-> TRUE]

ServerIp == <<192, 168, 1, 1>>

YourIp == <<192, 168, 1, 50>>

\* the reply a decider builds from the typed API for the client of the model
Offer ==
    DHCPv4(BootReply, <<222, 173, 190, 239>>, <<1, 2, 3, 4, 5, 6>>,
           <<OptMessageType(2), IPv4Option("OptServerIdentifier", ServerIp),
             IPv4Option("OptRouter", ServerIp), OptIPLeaseTime(3600),
             OptMaxMessageSize(1500)>>,
           0, YourIp, <<115, 114, 118>>, <<112, 120, 101>>)

\* the datagrams the server receives: requests built from the typed API and
\* encoded (a Discover, a request with a raw host-name option, a request
\* without options), the Discover with its magic cookie zeroed, with op 9,
\* cut to 100 bytes, and an empty datagram
DhcpDatagrams ==
    LET Discover ==
            DHCPv4(BootRequest, Offer.xid, Offer.client_hwaddr,
                   <<OptMessageType(1), OptParameterRequestList(<<1, 3, 6, 51>>)>>,
                   0, IpZero, <<>>, <<>>)
        PxeRequest ==
            DHCPv4(BootRequest, Offer.xid, Offer.client_hwaddr,
                   <<OptMessageType(3), IPv4Option("OptRequestedAddress", YourIp),
                     OptClientNetworkInterface(2, 1),
                     DhcpOption("Option", <<104, 111>>, 12)>>,
                   4, IpZero, <<>>, <<>>)
        BareRequest == DHCPv4(BootRequest, Offer.xid, Offer.client_hwaddr, <<>>, 0, IpZero, <<>>, <<>>)
        \* raw with the bytes from offset a on replaced by bs
        Overwrite(raw, a, bs) ==
            [i \in 1..Len(raw) |->
                IF i > a /\ i <= a + Len(bs) THEN bs[i - a] ELSE raw[i]]
    IN  {DHCPv4_to_bytes(p) : p \in {Discover, PxeRequest, BareRequest}}
        \cup {Overwrite(DHCPv4_to_bytes(Discover), 236, <<0, 0, 0, 0>>),
              Overwrite(DHCPv4_to_bytes(Discover), 0, <<9>>),
              Slice(DHCPv4_to_bytes(Discover), 0, 100),
              <<>>}

\* the Offer for a 4-byte hardware address
ShortHwOffer == [Offer EXCEPT !.client_hwaddr = <<1, 2, 3, 4>>, !.hlen = 4]

\* the replies of the decider: the two Offers, one with OptBootFileName(b'pxe')
\* (the inherited constructor leaves its opcode at OptionPad), one without
\* options, one with a 65-byte server name, one with a 17-byte hardware address
DhcpReplies ==
    {Offer, ShortHwOffer,
     [Offer EXCEPT !.options = <<OptMessageType(2),
                                  DhcpOption("OptBootFileName", Offer.boot_file, 0)>>],
     [Offer EXCEPT !.options = <<>>],
     [Offer EXCEPT !.server_name = [i \in 1..65 |-> 97]],
     [Offer EXCEPT !.client_hwaddr = [i \in 1..17 |-> i], !.hlen = 17]}

\* what the decider does with a request: return None, raise, return a reply
Decision(kind, res) == [kind |-> kind, res |-> res]

Decisions ==
    {Decision("none", NoDhcpPacket), Decision("raise", NoDhcpPacket)}
    \cup {Decision("reply", p) : p \in DhcpReplies}

\* res = self.on_packet(req), NoDhcpPacket for None
dhcp_on_packet_offer(decision) ==
    IF decision.kind = "reply" THEN decision.res ELSE Offer

dhcp_on_packet(decision) ==
    IF decision.kind = "reply" THEN decision.res ELSE NoDhcpPacket

\* the address handed to transport.sendto
DhcpReplyTarget_source(addr) == addr

DhcpReplyTarget(addr) == <<"255.255.255.255", 68>>

\* the body of datagram_received: the stage it reached, the decoded request,
\* the reply of the decider, its bytes, and the sendto that was made
dhcp_handle(data, addr, decision, sendok) ==
    LET DhcpOutcome(stage, rq, rs, bs, peer) ==
            [stage |-> stage, req |-> rq, res |-> rs, out |-> bs,
             sent |-> stage = "sent",
             to |-> IF stage = "sent" THEN DhcpReplyTarget(peer) ELSE None]
        req == DHCPv4_from_bytes(data)
        res == dhcp_on_packet(decision)
        out == DHCPv4_to_bytes(res)
    IN  IF req = Raised
            THEN DhcpOutcome("decode", NoDhcpPacket, NoDhcpPacket, <<>>, addr)
        ELSE IF decision.kind = "raise"
            THEN DhcpOutcome("handler", req, NoDhcpPacket, <<>>, addr)
        ELSE IF res = NoDhcpPacket
            THEN DhcpOutcome("none", req, NoDhcpPacket, <<>>, addr)
        ELSE IF out = RaisedBytes
            THEN DhcpOutcome("encode", req, res, <<>>, addr)
        ELSE IF ~sendok
            THEN DhcpOutcome("send", req, res, out, addr)
        ELSE DhcpOutcome("sent", req, res, out, addr)

\* the stages that end in an except clause that logs (pypxe/dhcp/server.py)
DhcpLogged(impl, stage) ==
    impl = "pypxe" /\ stage \in {"decode", "handler", "encode", "send"}

\* the stages whose exception leaves datagram_received (dhcp/server.py): the
\* event loop reports it and goes on with the next datagram
DhcpEscaped(impl, stage) ==
    impl = "dhcp" /\ stage \in {"handler", "encode", "send"}

\* the stages at which a datagram is dropped for its content or by the decider
DhcpDropStages == {"decode", "none", "handler"}

NoDhcpLast ==
    [addr |-> <<"", 0>>, data |-> <<>>, stage |-> "start", req |-> NoDhcpPacket,
     decided |-> "unasked", res |-> NoDhcpPacket, out |-> <<>>, sent |-> FALSE,
     to |-> None, logged |-> FALSE, escaped |-> FALSE]

\* the TFTP server is not in use
TftpIdle ==
    /\ population = OnePeer
    /\ connstate = [a \in {} |-> 0]
    /\ hist = [a \in {} |-> 0]
    /\ last = NoLast

\* connection_made
DhcpInit ==
    /\ dhcp \in {[impl |-> i, after_drop |-> FALSE, last |-> NoDhcpLast] : i \in DhcpImpls}
    /\ TftpIdle
    /\ container = NoContainer
    /\ wire = NoWire

\* datagram_received of the DHCP servers
dhcp_datagram_received(data, addr, decision, sendok) ==
    LET r == dhcp_handle(data, addr, decision, sendok)
    IN  /\ dhcp' = [impl |-> dhcp.impl,
                    after_drop |-> dhcp.last.stage \in DhcpDropStages,
                    last |-> [addr |-> addr, data |-> data, stage |-> r.stage,
                              req |-> r.req,
                              decided |-> IF r.req = NoDhcpPacket THEN "unasked"
                                          ELSE decision.kind,
                              res |-> r.res, out |-> r.out,
                              sent |-> r.sent, to |-> r.to,
                              logged |-> DhcpLogged(dhcp.impl, r.stage),
                              escaped |-> DhcpEscaped(dhcp.impl, r.stage)]]
        /\ UNCHANGED <<tftp_vars, container, wire>>

\* a datagram from one of two source addresses, with the decider and
\* transport outcomes that matter for it
DhcpNext ==
    LET DhcpEnvs(data) ==
            IF DHCPv4_from_bytes(data) = Raised
            THEN {[decision |-> Decision("none", NoDhcpPacket), sendok |-> TRUE]}
            ELSE {[decision |-> d, sendok |-> TRUE] : d \in Decisions}
                 \cup {[decision |-> d, sendok |-> FALSE] :
                          d \in {e \in Decisions :
                                    e.kind = "reply" /\ DHCPv4_encodable(e.res)}}
    IN  \E data \in DhcpDatagrams, addr \in {<<"0.0.0.0", 68>>, <<"192.168.1.50", 68>>} :
            \E e \in DhcpEnvs(data) :
                dhcp_datagram_received(data, addr, e.decision, e.sendok)

DhcpSpec == DhcpInit /\ [][DhcpNext]_vars

(* -------------- pypxe/dhcp/dhcp4/option.py: Options ------------------ *)

\* d[k] = v
DictSet_first(d, k, v) ==
    [x \in DOMAIN d \cup {k} |-> IF x \in DOMAIN d THEN d[x] ELSE v]

DictSet(d, k, v) == [x \in DOMAIN d \cup {k} |-> IF x = k THEN v ELSE d[x]]

RECURSIVE DictUpdate(_, _, _)
\* d.update({opt.opcode.value: idx + n for n, opt in enumerate(options, 0)})
DictUpdate(d, options, idx) ==
    IF options = <<>> THEN d
    ELSE DictUpdate(DictSet(d, Option_opcode(Head(options)), idx), Tail(options), idx + 1)

\* Options(options)
DhcpOptions(options) == [_dict |-> DictUpdate([k \in {} |-> 0], options, 0), _list |-> options]

\* Options.__iter__
DhcpOptions_iter(o) == o._list

\* Options.__contains__
DhcpOptions_contains(o, k) == k \in DOMAIN o._dict

\* Options.__getitem__ for a Param
DhcpOptions_getitem(o, k) == o._list[o._dict[k] + 1]

\* Options.get
DhcpOptions_get(o, k, d) == IF DhcpOptions_contains(o, k) THEN DhcpOptions_getitem(o, k) ELSE d

\* Options.append
DhcpOptions_append(o, option) ==
    [_dict |-> DictSet(o._dict, Option_opcode(option), Len(o._list)),
     _list |-> Append(o._list, option)]

\* Options.extend
DhcpOptions_extend(o, options) ==
    [_dict |-> DictUpdate(o._dict, options, Len(o._list)),
     _list |-> o._list \o options]

\* the longest option list a container grows to
MaxOptions == 4

\* the options put into containers: two routers, so that an opcode repeats
\* with different payloads, a message type and a lease time
ContainerOptions ==
    {IPv4Option("OptRouter", ServerIp), IPv4Option("OptRouter", YourIp),
     OptMessageType(2), OptIPLeaseTime(3600)}

\* the lists a container is built from or extended by: up to two options
ContainerLists ==
    {<<>>} \cup {<<a>> : a \in ContainerOptions}
    \cup {<<a, b>> : a \in ContainerOptions, b \in ContainerOptions}

\* Options(options) for a list of the caller
OptionsInit ==
    /\ container \in {[built |-> TRUE, options |-> DhcpOptions(l), inserted |-> l] :
                        l \in ContainerLists}
    /\ TftpIdle
    /\ dhcp = NoDhcp
    /\ wire = NoWire

\* container.append(option)
append(option) ==
    /\ Len(container.inserted) < MaxOptions
    /\ container' = [built |-> TRUE,
                     options |-> DhcpOptions_append(container.options, option),
                     inserted |-> Append(container.inserted, option)]
    /\ UNCHANGED <<tftp_vars, dhcp, wire>>

\* container.extend(options)
extend(options) ==
    /\ Len(container.inserted) + Len(options) <= MaxOptions
    /\ container' = [built |-> TRUE,
                     options |-> DhcpOptions_extend(container.options, options),
                     inserted |-> container.inserted \o options]
    /\ UNCHANGED <<tftp_vars, dhcp, wire>>

OptionsNext ==
    \/ \E option \in ContainerOptions : append(option)
    \/ \E options \in ContainerLists : extend(options)

OptionsSpec == OptionsInit /\ [][OptionsNext]_vars

(* ------------------- tftp.py: packets on the wire -------------------- *)

\* the packets of each class that are converted to bytes and back; the
\* message of an Error is empty or b'denied'
WirePackets ==
    {Request(op, name, mode, opts) :
        op \in {"ReadRequest", "WriteRequest"}, name \in {GoodName, <<>>},
        mode \in RequestMode, opts \in AllOptions}
    \cup {Data(b, d) : b \in {0, 1, 65535}, d \in AllPayloads}
    \cup {Acknowledgement(b) : b \in {0, 1, 2, 65535}}
    \cup {Error(c, m) : c \in NotDefined..NoSuchUser,
                         m \in {<<>>, <<100, 101, 110, 105, 101, 100>>}}
    \cup {OptionAcknowledgement(opts) : opts \in AllOptions}

\* datagrams that are not the encoding of a packet: empty, one byte, opcode 9,
\* an Ack cut short, a request without the NUL after the mode
WireGarbage ==
    {<<>>, <<0>>, <<0, 9>>, <<0, 4, 0>>, <<0, 1, 102, 0, 111, 99, 116, 101, 116>>}

WireInit ==
    /\ wire = NoWire
    /\ TftpIdle
    /\ dhcp = NoDhcp
    /\ container = NoContainer

\* from_bytes(q.to_bytes())
round_trip(q) ==
    /\ wire' = [fn |-> "round_trip", pkt |-> q, raw |-> to_bytes(q),
                back |-> from_bytes(to_bytes(q))]
    /\ UNCHANGED <<tftp_vars, dhcp, container>>

\* from_bytes(raw) for a datagram off the network
decode(raw) ==
    /\ wire' = [fn |-> "from_bytes", pkt |-> NoPacket, raw |-> raw, back |-> from_bytes(raw)]
    /\ UNCHANGED <<tftp_vars, dhcp, container>>

\* TLV streams handed to the DHCP option.from_bytes: one option of an opcode
\* that has no class (12 and 43 are members of Param, 84 and 200 are not)
\* followed by End, a lone End, a message type, End with a length byte, two
\* options, a stream without End, an empty one, a length beyond the stream
OptionStreams ==
    {<<op, Len(v)>> \o v \o <<255>> :
        op \in {12, 43, 84, 200}, v \in {<<>>, <<104, 111>>, <<1, 2, 3>>}}
    \cup {<<255>>, <<53, 1, 1, 255>>, <<255, 0, 255>>,
          <<53, 1, 1, 12, 2, 104, 111, 255>>, <<53, 1, 1>>, <<>>,
          <<12, 5, 104, 255>>}

\* option.from_bytes(raw) of pypxe/dhcp/dhcp4/option.py
options_decode(raw) ==
    /\ wire' = [fn |-> "option.from_bytes", pkt |-> NoPacket, raw |-> raw,
                back |-> Options_from_bytes(raw)]
    /\ UNCHANGED <<tftp_vars, dhcp, container>>

\* option.from_bytes(raw) of pypxe/tftp/option.py for up to two well-formed
\* pairs name NUL value NUL; the values are the digit strings 0, 8, 512, 65464
\* and, with leading zeros, 00, 08 and 0512
tftp_options_decode ==
    LET Values == {<<48>>, <<56>>, <<53, 49, 50>>, <<54, 53, 52, 54, 52>>,
                   <<48, 48>>, <<48, 56>>, <<48, 53, 49, 50>>}
        Pairs  == [name : {"blksize", "timeout", "tsize"}, value : Values]
        enc(p) == ParamValue(p.name) \o <<0>> \o p.value \o <<0>>
    IN  \E pairs \in {<<>>} \cup {<<p>> : p \in Pairs}
                          \cup {<<p, q>> : p \in Pairs, q \in Pairs} :
            LET raw == IF pairs = <<>> THEN <<>>
                       ELSE IF Len(pairs) = 1 THEN enc(pairs[1])
                       ELSE enc(pairs[1]) \o enc(pairs[2])
            IN  /\ wire' = [fn |-> "tftp.option.from_bytes", pkt |-> NoPacket,
                            pairs |-> pairs, raw |-> raw,
                            back |-> TftpOptions_from_bytes(raw)]
                /\ UNCHANGED <<tftp_vars, dhcp, container>>

WireNext ==
    \/ \E q \in WirePackets : round_trip(q)
    \/ \E raw \in WireGarbage : decode(raw)
    \/ \E raw \in OptionStreams : options_decode(raw)
    \/ tftp_options_decode

WireSpec == WireInit /\ [][WireNext]_vars

(* ------------------------------ properties ----------------------------- *)

\* a datagram has been handled
Handled == last.pkt # NoPacket

\* the address string of the peer of the last datagram
LastPeer == AddrStr(last.addr)

\* the last datagram belonged to a session of the given request kind
LastSession(op) == last.had /\ last.hist.request.op = op

\* the peer of the last datagram has no session and its buffer, if it had one, is closed
LastTornDown == LastPeer \notin DOMAIN connstate /\ (last.had => last.file.closed)

\* C1: once a peer's transfer has completed or a datagram from the peer has
\* produced an error, the session map does not contain the peer.
C1_NoSessionAfterEnd ==
    (Handled /\ (last.complete \/ last.exc # "none")) => LastPeer \notin DOMAIN connstate

\* a transfer ran to completion and its session is gone
C1_Witness ==
    /\ last.had /\ last.complete /\ last.exc = "none"
    /\ LastPeer \notin DOMAIN connstate

\* C2: on completion the buffer is rewound to offset 0, then the callback gets
\* the original request and the open buffer at offset 0 while the session is
\* still in the map, and only afterwards the buffer is closed and the session
\* removed.
C2_CompletionOrder ==
    last.complete =>
        /\ last.cb.called
        /\ last.cb.request = last.hist.request
        /\ last.cb.file.pos = 0
        /\ ~last.cb.file.closed
        /\ last.cb.inmap
        /\ last.file = File_close(last.cb.file)
        /\ LastPeer \notin DOMAIN connstate

\* a read of a non-empty file completed: the cursor was at the end before the rewind
C2_Witness ==
    /\ last.complete /\ last.exc = "none" /\ LastSession("ReadRequest")
    /\ Len(last.cb.file.data) > 0 /\ last.file.closed

\* C3: a first Request whose provider returns None is answered with
\* Error(FileNotFound, "file not found") for RRQ and Error(FileAlreadyExists,
\* "file already exists") for WRQ, and no session is created.
C3_ProviderMiss ==
    (Handled /\ ~last.had /\ last.env.provider = "none") =>
        /\ last.res = IF last.pkt.op = "ReadRequest"
                      THEN Error(FileNotFound, "file not found")
                      ELSE Error(FileAlreadyExists, "file already exists")
        /\ LastPeer \notin DOMAIN connstate

\* a WRQ the write provider refused, answered on the wire
C3_Witness ==
    /\ ~last.had /\ last.pkt.op = "WriteRequest" /\ last.env.provider = "none"
    /\ last.res.op = "Error" /\ last.sent

\* C4: a packet that is not a Request from a peer without a session is
\* answered with Error(IllegalOperation) and the session map is unchanged.
C4_NonRequestNoSession ==
    [][(last'.pkt # NoPacket /\ ~last'.had /\ ~is_request(last'.pkt)) =>
            /\ last'.res.op = "Error"
            /\ last'.res.code = IllegalOperation
            /\ connstate' = connstate
            /\ AddrStr(last'.addr) \notin DOMAIN connstate']_vars

\* an Ack from a peer without a session was refused
C4_Witness ==
    /\ ~last.had /\ last.pkt.op = "Ack" /\ last.res.op = "Error"
    /\ last.exc = "ServerError" /\ last.sent

\* C5: after a write transfer completes, the buffer holds the concatenation,
\* in order, of the payloads of the Data packets received in the session.
C5_WriterContent ==
    (last.complete /\ LastSession("WriteRequest")) =>
        /\ last.cb.file.data = last.hist.recv
        /\ last.file.data = last.hist.recv

\* a write of a full block followed by a short block completed
C5_Witness ==
    /\ last.complete /\ LastSession("WriteRequest") /\ last.exc = "none"
    /\ Len(last.hist.recv) > 2

\* block size and file size of the read session of the last datagram
LastBlksize == Options_blocksize(last.hist.request.options)

LastFilesize == Len(last.file.data)

\* C6 as stated: a completed read emitted ceil(filesize / blksize) Data
\* packets for a non-empty file and 1 for an empty file.
C6_Original ==
    (last.complete /\ LastSession("ReadRequest") /\ LastBlksize >= 1) =>
        last.hist.ndata = IF LastFilesize = 0 THEN 1
                          ELSE (LastFilesize + LastBlksize - 1) \div LastBlksize

\* C6 amended: a completed read with blksize >= 1 emitted
\* floor(filesize / blksize) + 1 Data packets.
C6_DataCount ==
    (last.complete /\ LastSession("ReadRequest") /\ LastBlksize >= 1) =>
        last.hist.ndata = (LastFilesize \div LastBlksize) + 1

\* a read of a file of exactly one block completed after two Data packets
C6_Witness ==
    /\ last.complete /\ LastSession("ReadRequest")
    /\ LastFilesize = LastBlksize /\ last.hist.ndata = 2

\* the last datagram was an RRQ with options that opened a session
RrqWithOptions ==
    /\ ~last.had /\ last.pkt.op = "ReadRequest" /\ last.env.provider = "buffer"
    /\ Len(last.pkt.options) > 0

\* C7 as stated: the first packet for an RRQ with options is an OACK that
\* carries the negotiated blksize whenever blksize was requested and the
\* actual file size whenever tsize was requested.
C7_Original ==
    RrqWithOptions =>
        /\ last.res.op = "OptionAck"
        /\ Options_contains(last.pkt.options, "blksize") =>
              Options_get(last.res.options, "blksize", None)
                  = <<Options_blocksize(last.pkt.options)>>
        /\ Options_contains(last.pkt.options, "tsize") =>
              Options_get(last.res.options, "tsize", None) = <<LastFilesize>>

\* C7 amended: the OACK lists blksize only when the negotiated value is not
\* 512, tsize as the actual file size when tsize was requested, and nothing else.
C7_FirstOack ==
    RrqWithOptions =>
        last.res = OptionAcknowledgement(
            (IF Options_blocksize(last.pkt.options) # 512
             THEN <<Option("blksize", Options_blocksize(last.pkt.options))>> ELSE <<>>) \o
            (IF Options_contains(last.pkt.options, "tsize")
             THEN <<Option("tsize", LastFilesize)>> ELSE <<>>))

\* RRQ{blksize=2, tsize=0} on a 3-byte file answered OACK{blksize=2, tsize=3}
C7_Witness ==
    /\ RrqWithOptions
    /\ last.res = OptionAcknowledgement(<<Option("blksize", 2), Option("tsize", 3)>>)
    /\ last.hist.ndata = 0

\* the last datagram was an Ack a read session refused for its block number
BadAck ==
    /\ LastSession("ReadRequest") /\ last.pkt.op = "Ack" /\ last.exc = "ServerError"

\* C8: Ack(g) while Ack(e) is expected, g # e, is answered with
\* Error(IllegalOperation, "bad block=g, expected=e") and the session is
\* closed and removed.
C8_BadBlock ==
    BadAck =>
        /\ \E e \in Blocks \ {last.pkt.block} :
              last.res = Error(IllegalOperation,
                  "bad block=" \o ToString(last.pkt.block) \o ", expected=" \o ToString(e))
        /\ LastTornDown

\* C9 as stated: an exception that is not a ServerError is answered with
\* Error(NotDefined, "internal server error") and the session is closed and removed.
C9_Original ==
    last.exc = "Exception" =>
        /\ last.res = Error(NotDefined, "internal server error")
        /\ LastTornDown

\* C9 amended: the reply is Error(NotDefined, "internal server error occured").
C9_InternalError ==
    last.exc = "Exception" =>
        /\ last.res = Error(NotDefined, "internal server error occured")
        /\ LastTornDown

\* the completion callback of a session raised
C9_Witness ==
    /\ last.exc = "Exception" /\ last.had /\ last.cb.called /\ last.env.cbraise
    /\ last.sent /\ last.file.closed

\* C10: an Error packet on an active session closes and removes the session
\* and no reply is sent.
C10_PeerError ==
    (last.had /\ last.pkt.op = "Error") =>
        /\ last.res = NoPacket
        /\ ~last.sent
        /\ LastTornDown

\* the reply to the last datagram could not be encoded or sent
SendFailed == last.res # NoPacket /\ ~last.sent

\* C11: whenever encoding or sending a response for a peer fails, that
\* peer's session is closed and removed from the session map.
C11_SendFailure == SendFailed => LastTornDown

\* C12: every datagram the server sends is addressed to the (host, port) the
\* triggering datagram was received from.
C12_ReplyToSender == last.sent => last.to = last.addr

\* the second peer was answered while the first peer has a session
C12_Witness ==
    /\ last.sent /\ last.addr = Addr2 /\ last.to = Addr2
    /\ AddrStr(Addr1) \in DOMAIN connstate

\* the last datagram could not be decoded
Undecodable == last.pkt = NoPacket /\ last.addr # NoLast.addr

\* C15: a datagram that cannot be decoded produces no reply and leaves the
\* session map and every session's state unchanged.
C15_DecodeDrop ==
    [][(last'.pkt = NoPacket /\ last'.addr # NoLast.addr) =>
            /\ connstate' = connstate
            /\ last'.res = NoPacket
            /\ ~last'.sent]_vars

\* a datagram of a peer in mid-transfer was dropped and the session is still there
C15_Witness ==
    /\ Undecodable
    /\ LastPeer \in DOMAIN connstate
    /\ connstate[LastPeer].handler.block > 0

\* C13: every reply of the DHCP server is addressed to 255.255.255.255 port
\* 68, whatever the source address of the request, and never to the source.
C13_Broadcast ==
    dhcp.impl \in DhcpImpls =>
        (dhcp.last.sent =>
            /\ dhcp.last.to = <<"255.255.255.255", 68>>
            /\ dhcp.last.to # dhcp.last.addr)

\* a request from a unicast source address was answered
C13_Witness ==
    /\ dhcp.impl \in DhcpImpls
    /\ dhcp.last.sent /\ dhcp.last.addr = <<"192.168.1.50", 68>>
    /\ dhcp.last.res = Offer

\* C14: the DHCP server sends nothing when decoding fails, when the decider
\* returns none or when the decider raises.
C14_Drops ==
    dhcp.impl \in DhcpImpls =>
        ((dhcp.last.stage # "start" /\ dhcp.last.decided # "reply") =>
            /\ dhcp.last.stage \in DhcpDropStages
            /\ ~dhcp.last.sent
            /\ dhcp.last.to = None
            /\ dhcp.last.out = <<>>)

\* the datagram after a dropped one was answered
C14_Witness ==
    /\ dhcp.impl \in DhcpImpls
    /\ dhcp.after_drop /\ dhcp.last.sent

\* the DHCP server has encoded a reply: the packet and its bytes
DhcpEncoded == dhcp.impl \in DhcpImpls /\ dhcp.last.stage \in {"send", "sent"}

\* C16: for every DHCPv4 packet p built from the typed API, the empty option
\* list and options of each typed or raw-bytes kind included,
\* decode(encode(p)) equals p field by field and option by option.
C16_RoundTrip ==
    DhcpEncoded => DHCPv4_from_bytes(dhcp.last.out) = dhcp.last.res

\* C18: for a packet with a hardware address of at most 16 bytes, sname of at
\* most 64 bytes and file of at most 128 bytes, encode yields exactly
\* 240 + len(options TLV stream) + 1 bytes, with the magic cookie at [236:240]
\* and 0xFF as the last byte.
C18_Layout ==
    (/\ dhcp.impl \in DhcpImpls
     /\ dhcp.last.res # NoDhcpPacket
     /\ Len(dhcp.last.res.client_hwaddr) <= 16
     /\ Len(dhcp.last.res.server_name) <= 64
     /\ Len(dhcp.last.res.boot_file) <= 128) =>
        /\ DhcpEncoded
        /\ Len(dhcp.last.out) = 240 + Len(Options_to_bytes(dhcp.last.res.options)) + 1
        /\ Slice(dhcp.last.out, 236, 240) = magic_cookie
        /\ dhcp.last.out[Len(dhcp.last.out)] = 255

\* a reply with a 4-byte hardware address, a server name, a boot file and five
\* options went out
C18_Witness ==
    /\ DhcpEncoded /\ dhcp.last.sent
    /\ dhcp.last.res = ShortHwOffer
    /\ Len(dhcp.last.out) = 266

\* C19: decoding a packet whose bytes [236:240] are not the magic cookie
\* fails and produces no packet object.
C19_MagicCookie ==
    (/\ dhcp.impl \in DhcpImpls
     /\ dhcp.last.stage # "start"
     /\ Slice(dhcp.last.data, 236, 240) # magic_cookie) =>
        /\ dhcp.last.stage = "decode"
        /\ dhcp.last.req = NoDhcpPacket

\* the option inserted last among those with opcode k
LastInserted(k) ==
    container.inserted[CHOOSE i \in 1..Len(container.inserted) :
        /\ Option_opcode(container.inserted[i]) = k
        /\ \A j \in (i + 1)..Len(container.inserted) :
              Option_opcode(container.inserted[j]) # k]

\* C17: for every supported TFTP packet q (Request, Data, Ack, Error, OACK),
\* decode(encode(q)) equals q in opcode and every field.
C17_RoundTrip == wire.fn = "round_trip" => wire.back = wire.pkt

\* C20: after construction from a list and any sequence of append and extend
\* calls, iteration yields every option in insertion order, duplicates
\* included, and lookup by opcode returns the option inserted last with that
\* opcode.
C20_Container ==
    container.built =>
        /\ DhcpOptions_iter(container.options) = container.inserted
        /\ \A k \in Param :
              IF \E i \in 1..Len(container.inserted) :
                    Option_opcode(container.inserted[i]) = k
              THEN /\ DhcpOptions_contains(container.options, k)
                   /\ DhcpOptions_get(container.options, k, None) = LastInserted(k)
              ELSE DhcpOptions_get(container.options, k, None) = None

\* a container holding both routers and a message type between them, the
\* second router put in after construction
C20_Witness ==
    /\ container.built
    /\ Len(container.inserted) = MaxOptions
    /\ container.inserted[1] = IPv4Option("OptRouter", ServerIp)
    /\ container.inserted[2] = OptMessageType(2)
    /\ container.inserted[3] = IPv4Option("OptRouter", YourIp)
    /\ DhcpOptions_get(container.options, 3, None) = IPv4Option("OptRouter", YourIp)
    /\ container.options._dict[3] = 2

\* C21: an option whose opcode has no typed codec, a member of Param or not,
\* decodes into a raw-bytes option with the same opcode and the full payload.
C21_UnknownOpcode ==
    (/\ wire.fn = "option.from_bytes"
     /\ Len(wire.raw) >= 3
     /\ OptionClassOf(wire.raw[1]) = "none"
     /\ wire.raw[1] \in 1..254
     /\ Len(wire.raw) = wire.raw[2] + 3
     /\ wire.raw[Len(wire.raw)] = 255)
    => wire.back = <<DhcpOption("Option", Slice(wire.raw, 2, wire.raw[2] + 2),
                                wire.raw[1])>>

\* C22: the stream decoder returns exactly the options before the first End
\* byte at the cursor and never an End option: a stream that starts with End
\* gives the empty list, 35 01 01 FF gives [MessageType(Discover)].
C22_StreamDecode ==
    wire.fn = "option.from_bytes" =>
        /\ (wire.raw # <<>> /\ wire.raw[1] = 255) => wire.back = <<>>
        /\ wire.raw = <<53, 1, 1, 255>> => wire.back = <<OptMessageType(1)>>
        /\ wire.back # RaisedList =>
              \A i \in 1..Len(wire.back) : Option_opcode(wire.back[i]) # 255

\* the packet the session of the last datagram had emitted most recently
\* before that datagram, NoPacket if it had emitted none
LastEmitted ==
    LET n == IF last.res = NoPacket THEN Len(last.hist.emitted)
             ELSE Len(last.hist.emitted) - 1
    IN  IF n >= 1 THEN last.hist.emitted[n] ELSE NoPacket

\* the last datagram was an Ack that Reader.next took without raising
AckTaken ==
    /\ LastSession("ReadRequest") /\ last.pkt.op = "Ack"
    /\ (last.exc = "none" \/ last.complete)

\* C23: a read session completes exactly when the client acknowledges the
\* first Data block whose payload is shorter than blksize; the
\* acknowledgement of a full block never completes it, and no Data packet
\* follows the terminal acknowledgement.
C23_ReaderTerminal ==
    AckTaken =>
        /\ last.complete <=>
              (LastEmitted.op = "Data" /\ Len(LastEmitted.data) < LastBlksize)
        /\ last.complete => (last.res.op # "Data" /\ LastPeer \notin DOMAIN connstate)
        /\ \A i \in 1..Len(last.hist.emitted) :
              (/\ last.hist.emitted[i].op = "Data"
               /\ Len(last.hist.emitted[i].data) < LastBlksize)
              => IF last.complete
                 THEN last.hist.emitted[i] = LastEmitted
                      /\ i >= Len(last.hist.emitted) - 1
                 ELSE i = Len(last.hist.emitted) /\ last.res = last.hist.emitted[i]

\* a full block was acknowledged and the transfer went on, then the short
\* block that followed was acknowledged and the transfer completed
C23_Witness ==
    /\ AckTaken /\ last.complete /\ last.exc = "none"
    /\ LastEmitted.op = "Data" /\ LastEmitted.block = 2
    /\ Len(LastEmitted.data) = 1 /\ LastBlksize = 2
    /\ Len(last.hist.emitted[Len(last.hist.emitted) - 1].data) = 2

\* the Data packets the session of the last datagram has emitted, in order
DataEmitted == SelectSeq(last.hist.emitted, LAMBDA p : p.op = "Data")

\* C24: for a file whose size is a non-zero multiple of blksize the Reader
\* emits, after the last full block, one more Data packet with an empty
\* payload and completes on its acknowledgement; for an empty file the only
\* Data packet is Data(1) with an empty payload.
C24_BoundaryBlocks ==
    (/\ last.complete /\ LastSession("ReadRequest") /\ last.pkt.op = "Ack"
     /\ LastBlksize >= 1 /\ LastFilesize % LastBlksize = 0)
    => LET k == LastFilesize \div LastBlksize
       IN  /\ Len(DataEmitted) = k + 1
           /\ \A i \in 1..k :
                 /\ DataEmitted[i].block = i
                 /\ DataEmitted[i].data =
                        SubSeq(last.file.data, (i - 1) * LastBlksize + 1, i * LastBlksize)
           /\ DataEmitted[k + 1] = Data(k + 1, <<>>)
           /\ last.pkt = Acknowledgement(k + 1)

\* a file of exactly one block of 2 bytes was read: Data(1) full, Data(2) empty
C24_Witness ==
    /\ last.complete /\ LastSession("ReadRequest") /\ last.exc = "none"
    /\ LastBlksize = 2 /\ LastFilesize >= 2 /\ LastFilesize % 2 = 0
    /\ DataEmitted[Len(DataEmitted)] = Data(LastFilesize \div 2 + 1, <<>>)
    /\ Len(DataEmitted[1].data) = 2

\* C25: the block counter is a 16-bit value: after Data(65535) is
\* acknowledged the next Data packet is sent with block number 0 and the
\* transfer continues.
C25_BlockOverflow ==
    (/\ LastSession("ReadRequest") /\ last.pkt = Acknowledgement(65535)
     /\ last.exc = "none" /\ ~last.complete /\ last.env.sendok)
    => /\ last.res.op = "Data"
       /\ last.res.block = 0
       /\ last.sent
       /\ LastPeer \in DOMAIN connstate

\* C26: after the Reader has emitted an OACK and before any Data, Ack(0)
\* makes it emit Data(1) without advancing the block counter, and Ack(b)
\* with b # 0 fails with BadBlock(got b, want 0).
C26_OackHandshake ==
    (LastSession("ReadRequest") /\ last.pkt.op = "Ack" /\ LastEmitted.op = "OptionAck")
    => IF last.pkt.block = 0
       THEN /\ last.exc = "none" /\ ~last.complete
            /\ last.res = Data(1, SubSeq(last.file.data, 1, Min(LastBlksize, LastFilesize)))
            /\ connstate[LastPeer].handler.block = 0
       ELSE /\ last.exc = "ServerError"
            /\ last.res = Error(IllegalOperation, BadBlockError(last.pkt.block, 0).message)
            /\ last.res.message = "bad block=" \o ToString(last.pkt.block) \o ", expected=0 "
            /\ LastTornDown

\* the OACK for blksize 2 was acknowledged and the first block of a 3-byte
\* file went out
C26_Witness ==
    /\ LastSession("ReadRequest") /\ last.pkt = Acknowledgement(0)
    /\ LastEmitted.op = "OptionAck"
    /\ last.res = Data(1, <<1, 2>>) /\ LastFilesize = 3
    /\ connstate[LastPeer].handler.block = 0

\* C27: outside the OACK handshake the Reader accepts Ack(b) only if b is the
\* block number of the Data packet it emitted last; on a match for a block
\* that is not the terminal one it advances and emits Data(b + 1).
C27_AckStep ==
    (LastSession("ReadRequest") /\ last.pkt.op = "Ack" /\ LastEmitted.op = "Data")
    => IF last.pkt.block = LastEmitted.block
       THEN /\ last.exc = "none" \/ last.complete
            /\ ~last.complete =>
                  /\ last.res.op = "Data"
                  /\ last.res.block = last.pkt.block + 1
                  /\ connstate[LastPeer].handler.block = last.pkt.block
       ELSE /\ last.exc = "ServerError" /\ ~last.complete
            /\ last.res.op = "Error"
            /\ LastTornDown

\* Ack(1) for a full first block was taken and Data(2) followed
C27_Witness ==
    /\ LastSession("ReadRequest") /\ last.pkt = Acknowledgement(1)
    /\ LastEmitted.op = "Data" /\ Len(LastEmitted.data) = LastBlksize
    /\ last.res.op = "Data" /\ last.res.block = 2 /\ Len(last.res.data) = 1
    /\ last.exc = "none"

\* C28: a read session whose request carried no options starts with Data(1)
\* holding the first min(512, filesize) bytes of the file, and no OACK is ever
\* emitted in that session.
C28_ReaderNoOptions ==
    (last.hist.request.op = "ReadRequest" /\ last.hist.request.options = <<>>)
    => /\ Len(last.hist.emitted) >= 1
       /\ last.hist.emitted[1] =
             Data(1, SubSeq(last.file.data, 1, Min(DefaultBlockSize, LastFilesize)))
       /\ \A i \in 1..Len(last.hist.emitted) : last.hist.emitted[i].op # "OptionAck"

\* a file of 513 bytes was requested without options: the first block has 512
C28_Witness ==
    /\ ~last.had /\ last.pkt = Request("ReadRequest", GoodName, "octet", <<>>)
    /\ LastFilesize = DefaultBlockSize + 1
    /\ last.res.op = "Data" /\ last.res.block = 1
    /\ Len(last.res.data) = DefaultBlockSize
    /\ last.hist.emitted = <<last.res>>

\* C29: the first packet of a write session is an OACK if the request carried
\* options and Ack(0) otherwise.
C29_WriterInitial ==
    (/\ Handled /\ ~last.had /\ last.pkt.op = "WriteRequest"
     /\ last.env.provider = "buffer")
    => IF last.pkt.options # <<>>
       THEN last.res.op = "OptionAck"
       ELSE last.res = Acknowledgement(0)

\* C30: the Writer accepts Data(b, payload) only if b is its block + 1; it
\* then appends the payload to the file, sets its block to b and answers
\* Ack(b); a payload shorter than the block size completes the session after
\* that Ack, which is still sent.  Any other block fails with BadBlock.
C30_WriterData ==
    (LastSession("WriteRequest") /\ last.pkt.op = "Data")
    => LET current == LastEmitted.block
           n       == Len(last.pkt.data)
           size    == Len(last.file.data)
       IN  /\ LastEmitted.op = "Ack"
           /\ IF last.pkt.block # current + 1
              THEN /\ last.exc = "ServerError" /\ ~last.complete
                   /\ last.res = Error(IllegalOperation,
                                       BadBlockError(last.pkt.block, current + 1).message)
                   /\ LastTornDown
              ELSE n <= LastBlksize =>
                   /\ last.exc = "none" \/ (last.complete /\ last.env.cbraise)
                   /\ last.file.data = last.hist.recv
                   /\ SubSeq(last.file.data, size - n + 1, size) = last.pkt.data
                   /\ last.complete <=> n < LastBlksize
                   /\ ~last.complete =>
                         connstate[LastPeer].handler.block = last.pkt.block
                   /\ last.complete => LastPeer \notin DOMAIN connstate
                   /\ ~last.env.cbraise =>
                         /\ last.res = Acknowledgement(last.pkt.block)
                         /\ last.env.sendok => last.sent

\* a full block and then a short one arrived in order: the file holds both,
\* the session is complete and Ack(2) went out
C30_Witness ==
    /\ LastSession("WriteRequest") /\ last.pkt = Data(2, <<7>>)
    /\ LastBlksize = 2 /\ LastEmitted = Acknowledgement(1)
    /\ last.file.data = <<9, 8, 7>>
    /\ last.complete /\ last.res = Acknowledgement(2) /\ last.sent
    /\ LastPeer \notin DOMAIN connstate

\* C31: a Data packet whose payload is longer than the block size of the
\* write session fails with IllegalOperation: the peer receives
\* Error(IllegalOperation) and no Ack, the block counter does not advance and
\* the session is closed.
C31_Oversize ==
    [][LET p == AddrStr(last'.addr)
       IN  (/\ p \in DOMAIN connstate
            /\ connstate[p].handler.kind = "Writer"
            /\ last'.pkt.op = "Data"
            /\ Len(last'.pkt.data) > connstate[p].handler.blksize)
           => /\ last'.exc = "ServerError"
              /\ last'.res.op = "Error" /\ last'.res.code = IllegalOperation
              /\ last'.env.sendok => (last'.sent /\ last'.to = last'.addr)
              /\ ~last'.complete /\ ~last'.cb.called
              /\ on_packet(connstate, last'.pkt, p, last'.env).cs[p].handler.block
                    = connstate[p].handler.block
              /\ p \notin DOMAIN connstate'
              /\ last'.file.closed]_vars

\* three bytes arrived as block 1 of a write session with blksize 2
C31_Witness ==
    /\ LastSession("WriteRequest") /\ last.pkt = Data(1, <<7, 8, 9>>)
    /\ LastBlksize = 2
    /\ last.res = Error(IllegalOperation, "invalid size=3, block<=2")
    /\ last.sent /\ LastTornDown

\* C32: a Request from a peer that has a session is rejected: the reply is
\* Error(IllegalOperation), the session is closed and removed, no provider is
\* invoked and no session is created.
C32_RequestOnSession ==
    [][LET p == AddrStr(last'.addr)
       IN  (p \in DOMAIN connstate /\ is_request(last'.pkt))
           => /\ last'.res = Error(IllegalOperation, "unexpected op=" \o last'.pkt.op)
              /\ last'.env.sendok => last'.sent
              /\ p \notin DOMAIN connstate'
              /\ DOMAIN connstate' = DOMAIN connstate \ {p}
              /\ last'.file = close(connstate[p].handler).file
              /\ last'.file.closed
              /\ ~last'.cb.called
              /\ \A prov \in {"none", "raise", "buffer"}, b \in ReadBuffers(population) :
                    on_packet(connstate, last'.pkt, p, Env(prov, b, FALSE, TRUE))
                        = on_packet(connstate, last'.pkt, p, last'.env)]_vars

\* a read request arrived again on a read session that had sent its first block
C32_Witness ==
    /\ LastSession("ReadRequest") /\ last.pkt.op = "ReadRequest"
    /\ Len(last.hist.emitted) = 2 /\ last.hist.emitted[1].op = "Data"
    /\ last.res = Error(IllegalOperation, "unexpected op=ReadRequest")
    /\ last.sent /\ LastTornDown

\* C33: a read session fails on a packet that is neither Ack nor Error, and a
\* write session on a packet that is neither Data nor Error: the peer
\* receives Error(IllegalOperation) and the session is closed.
C33_UnexpectedPacket ==
    (\/ LastSession("ReadRequest") /\ last.pkt.op \in {"Data", "OptionAck"}
     \/ LastSession("WriteRequest") /\ last.pkt.op \in {"Ack", "OptionAck"})
    => /\ last.exc = "ServerError"
       /\ last.res = Error(IllegalOperation, "unexpected op=" \o last.pkt.op)
       /\ last.env.sendok => last.sent
       /\ ~last.complete /\ ~last.cb.called
       /\ LastTornDown

\* a Data packet arrived on a read session
C33_Witness ==
    /\ LastSession("ReadRequest") /\ last.pkt.op = "Data"
    /\ last.res = Error(IllegalOperation, "unexpected op=Data")
    /\ last.sent /\ LastTornDown

\* C34: closing a session sets its block counter to -1, and a datagram that
\* the peer sends after the close is ignored: no reply, no provider or
\* callback invocation and no state change.
C34_ClosedSentinel ==
    [][LET p == AddrStr(last'.addr)
       IN  /\ (p \in DOMAIN connstate /\ p \notin DOMAIN connstate')
              => is_closed(close(connstate[p].handler))
           /\ (/\ last.had /\ LastPeer \notin DOMAIN connstate
               /\ p = LastPeer /\ last'.pkt # NoPacket)
              => /\ last'.res = NoPacket /\ ~last'.sent
                 /\ last'.env.provider = "unused" /\ ~last'.cb.called
                 /\ connstate' = connstate]_vars

RECURSIVE Payloads(_)
\* the payloads of a sequence of Data packets, concatenated
Payloads(d) == IF d = <<>> THEN <<>> ELSE Head(d).data \o Payloads(Tail(d))

\* C35: in a read session with blksize >= 1 the Data packets carry the block
\* numbers 1, 2, 3, ... without gaps, Data(n) carries the bytes
\* [(n-1)*blksize, min(n*blksize, filesize)) of the buffer, and at completion
\* the payloads emitted add up to the whole file.
C35_ReaderPayload ==
    (last.hist.request.op = "ReadRequest" /\ LastBlksize >= 1)
    => /\ \A i \in 1..Len(DataEmitted) :
             /\ DataEmitted[i].block = i
             /\ DataEmitted[i].data =
                   SubSeq(last.file.data, (i - 1) * LastBlksize + 1,
                          Min(i * LastBlksize, LastFilesize))
       /\ last.complete => Payloads(DataEmitted) = last.file.data

\* a read of three bytes in blocks of two completed after two Data packets
C35_Witness ==
    /\ LastSession("ReadRequest") /\ last.complete /\ LastBlksize = 2
    /\ last.file.data = <<1, 2, 3>>
    /\ DataEmitted = <<Data(1, <<1, 2>>), Data(2, <<3>>)>>

\* C36: handling a datagram from one peer never creates, changes or removes
\* the session of another peer: its map entry, handler kind, block counter,
\* OACK flags and buffer stay as they were.
C36_PeerIsolation ==
    [][LET p == AddrStr(last'.addr)
       IN  /\ \A b \in DOMAIN connstate \ {p} :
                 b \in DOMAIN connstate' /\ connstate'[b] = connstate[b]
           /\ DOMAIN connstate' \ {p} \subseteq DOMAIN connstate]_vars

\* the session of one peer ended while the other peer was in the middle of
\* a transfer
C36_Witness ==
    /\ last.had /\ LastTornDown
    /\ \E b \in DOMAIN connstate :
          /\ b # LastPeer
          /\ connstate[b].handler.block = 1
          /\ connstate[b].handler.file.pos > 0

\* C37: the completion callback is invoked at most once per session, only
\* when the handler of that session signalled the end of the transfer, and
\* never for a session that an error tore down.
C37_CallbackDiscipline ==
    [][LET p == AddrStr(last'.addr)
       IN  /\ last'.cb.called =>
                 /\ p \in DOMAIN connstate
                 /\ Handler_next(connstate[p].handler, last'.pkt).err = NoExc
                 /\ ~Handler_next(connstate[p].handler, last'.pkt).ret
                 /\ last'.cb.request = connstate[p].request
                 /\ last'.hist.cbs = 1
                 /\ p \notin DOMAIN connstate'
           /\ last'.exc = "ServerError" => ~last'.cb.called
           /\ (last'.exc = "Exception" /\ last'.cb.called) => last'.env.cbraise
           /\ (last'.pkt.op = "Error" \/ ~last'.had) => ~last'.cb.called
           /\ \A a \in DOMAIN hist' : hist'[a].cbs = 0]_vars

\* a write session completed and its callback ran, once
C37_Witness ==
    /\ LastSession("WriteRequest") /\ last.complete /\ last.cb.called
    /\ last.hist.cbs = 1 /\ last.exc = "none"
    /\ Len(last.hist.recv) = 3

\* C38: a Data packet that the Writer rejects, for a wrong block number or
\* for a payload longer than blksize, changes neither the buffer contents
\* nor the block counter.
C38_RejectionFrame ==
    [][LET p == AddrStr(last'.addr)
           h == on_packet(connstate, last'.pkt, p, last'.env).cs[p].handler
       IN  (/\ p \in DOMAIN connstate
            /\ connstate[p].handler.kind = "Writer"
            /\ last'.pkt.op = "Data"
            /\ last'.exc = "ServerError")
           => /\ h.block = connstate[p].handler.block
              /\ h.file.data = connstate[p].handler.file.data
              /\ last'.file.data = connstate[p].handler.file.data]_vars

\* C39: a read session whose peer acknowledges each emitted packet in turn
\* eventually completes, whatever the negotiated blksize (0 included) and the
\* file size: the completion callback is invoked and the session is removed.
C39_ReadTermination ==
    <>(/\ last.complete /\ last.cb.called
       /\ AddrStr(Addr1) \notin DOMAIN connstate)

\* C40: for a byte string made of n well-formed pairs name NUL value NUL with
\* known names and decimal-digit values, leading zeros included, the list
\* parser returns exactly n options, the i-th with the name and the integer
\* value of the i-th pair.
C40_OptionCursor ==
    wire.fn = "tftp.option.from_bytes"
    => wire.back = [i \in 1..Len(wire.pairs) |->
                       Option(wire.pairs[i].name, DigitsValue(wire.pairs[i].value))]

====
